---- MODULE Spec2Model ----
(***************************************************************************)
(* Model of the herbal REST backend: the JWT authorization gate, the user  *)
(* management handlers and the order workflow (orders + order_items with a *)
(* compensating delete), each handler translated from its source.          *)
(***************************************************************************)
EXTENDS Integers, Sequences, FiniteSets, TLC

VARIABLES users, tokens, clock, orders, order_items, nextOrderId, cr, body, last,
          categories, products, nextCategoryId, nextProductId, reg, ops, run

authVars == <<users, tokens, clock>>
orderVars == <<orders, order_items, nextOrderId, cr>>
catalogVars == <<categories, products, nextCategoryId, nextProductId>>
vars == <<users, tokens, clock, orders, order_items, nextOrderId, cr, body, last,
          categories, products, nextCategoryId, nextProductId, reg, ops, run>>

(***************************************************************************)
(* Bounds of the model.                                                    *)
(***************************************************************************)
MaxItems == 2
MaxOrders == 2
MaxIssued == 2
MaxTicks == 1
MaxCategories == 3
MaxProducts == 3
MaxPage == 4

(***************************************************************************)
(* JavaScript values of a JSON request field.  Numbers are carried in      *)
(* hundredths (the scale of the store's DECIMAL(10, 2) columns): 1599 is   *)
(* 15.99, 150 is 1.5.                                                      *)
(***************************************************************************)
Scale == 100

Undef == [k |-> "undef", v |-> 0]
Num(n) == [k |-> "num", v |-> n]
NumStr(n) == [k |-> "str", v |-> n]
Text == [k |-> "text", v |-> 0]

NaN == [nan |-> TRUE, n |-> 0]
Number(n) == [nan |-> FALSE, n |-> n]

\* !x is FALSE: undefined and the number 0 are falsy, every non-empty string
\* (also "0") is truthy.
Truthy(x) ==
  CASE x.k = "undef" -> FALSE
    [] x.k = "num" -> x.v # 0
    [] x.k = "str" -> TRUE
    [] x.k = "text" -> TRUE

\* The global isNaN: Number(x) is NaN.
isNaN(x) == x.k \in {"undef", "text"}

\* parseInt keeps the integer part of the leading number (truncation towards 0).
parseInt(x) ==
  IF x.k \in {"num", "str"}
  THEN Number(IF x.v >= 0 THEN x.v \div Scale ELSE -((-x.v) \div Scale))
  ELSE NaN

\* parseFloat, in hundredths.
parseFloat(x) == IF x.k \in {"num", "str"} THEN Number(x.v) ELSE NaN

\* a < b on numbers: every comparison with NaN is false.
Less(a, b) == ~a.nan /\ a.n < b

(***************************************************************************)
(* Users, ids and bearer credentials.                                      *)
(***************************************************************************)
UserIds == {"a1", "u1", "u2"}

\* users.id is a UUID column: the store reads an id text case-insensitively
\* and always writes it back in lower case.  A request carries an id as text.
IdText(u, f) == [uid |-> u, form |-> f]
uuid_in(text) == text.uid
uuid_out(u) == IdText(u, "lower")

\* The id text of no user.
NoTarget == IdText("", "lower")

\* Token validity windows, in units of 15 minutes: '15m' and '7d'.
AccessTtl == 1
RefreshTtl == 672

\* No Authorization header, and a header whose token fails the signature check.
NoCredential == [k |-> "none", userId |-> NoTarget, role |-> "", exp |-> 0, cls |-> ""]
Malformed == [k |-> "bad", userId |-> NoTarget, role |-> "", exp |-> 0, cls |-> ""]

\* jwt.sign(payload, JWT_SECRET, {expiresIn, issuer, audience}); cls records
\* which generator issued the token and is not part of the signed payload.
generateAccessToken(payload, now) ==
  [k |-> "jwt", userId |-> payload.userId, role |-> payload.role,
   exp |-> now + AccessTtl, cls |-> "access"]

generateRefreshToken(payload, now) ==
  [k |-> "jwt", userId |-> payload.userId, role |-> payload.role,
   exp |-> now + RefreshTtl, cls |-> "refresh"]

generateTokenPair(payload, now) ==
  {generateAccessToken(payload, now), generateRefreshToken(payload, now)}

\* jwt.verify(token, JWT_SECRET, {issuer, audience}): signature, then expiry.
verifyAccessToken(token, now) ==
  IF token.k # "jwt" THEN "JsonWebTokenError"
  ELSE IF now >= token.exp THEN "TokenExpiredError"
  ELSE "ok"

verifyRefreshToken(token, now) ==
  IF token.k # "jwt" THEN "JsonWebTokenError"
  ELSE IF now >= token.exp THEN "TokenExpiredError"
  ELSE "ok"

\* What a client can put in the Authorization header.
Credentials == {NoCredential, Malformed} \cup tokens

NoPrincipal == [id |-> NoTarget, role |-> "none"]

GateReject(msg) == [passed |-> FALSE, status |-> 401, message |-> msg, user |-> NoPrincipal]

\* A role taken from the claim the token carries.
tokenRole(cred) == cred.role

\* req.user.role: the role of the row findById returned.
reqUserRole(cred) == users[uuid_in(cred.userId)].role

\* A gate that trusts a verified token without looking at is_active.
authenticateTokenTrusting(cred, dbOk) ==
  IF cred.k = "none" THEN GateReject("Access token is required")
  ELSE IF verifyAccessToken(cred, clock.now) = "JsonWebTokenError" THEN GateReject("Invalid token")
  ELSE IF verifyAccessToken(cred, clock.now) = "TokenExpiredError" THEN GateReject("Token has expired")
  ELSE IF ~dbOk THEN GateReject("Authentication failed")
  ELSE IF uuid_in(cred.userId) \notin DOMAIN users THEN GateReject("User not found")
  ELSE [passed |-> TRUE, status |-> 200, message |-> "next",
        user |-> [id |-> uuid_out(uuid_in(cred.userId)), role |-> reqUserRole(cred)]]

\* authenticateToken: dbOk is the outcome of userService.findById.
authenticateToken(cred, dbOk) ==
  IF cred.k = "none" THEN GateReject("Access token is required")
  ELSE IF verifyAccessToken(cred, clock.now) = "JsonWebTokenError" THEN GateReject("Invalid token")
  ELSE IF verifyAccessToken(cred, clock.now) = "TokenExpiredError" THEN GateReject("Token has expired")
  ELSE IF ~dbOk THEN GateReject("Authentication failed")
  ELSE IF uuid_in(cred.userId) \notin DOMAIN users THEN GateReject("User not found")
  ELSE IF ~users[uuid_in(cred.userId)].is_active THEN GateReject("Account is deactivated")
  ELSE [passed |-> TRUE, status |-> 200, message |-> "next",
        user |-> [id |-> uuid_out(uuid_in(cred.userId)), role |-> reqUserRole(cred)]]

\* id === req.user.id on two id texts.
StrictEquals(a, b) == a.uid = b.uid /\ a.form = b.form

\* authorizeRoles(allowedRoles)
authorizeRoles(allowedRoles, reqUser) == reqUser.role \in allowedRoles

\* A role check that lets every authenticated user through.
requireAuthenticated(reqUser) == TRUE

requireAdmin(reqUser) == authorizeRoles({"admin"}, reqUser)

(***************************************************************************)
(* Responses: the envelope of sendSuccessResponse / sendErrorResponse,     *)
(* with the request it answers.  errors names the store errors whose text  *)
(* the body carries; order is <<>> or the one order the body carries;       *)
(* target and id are the :id parameter of a user or an order route; issued *)
(* is the token pair in the body; failed names the store calls of the      *)
(* request that failed without ending it.                                  *)
(***************************************************************************)
Response(op, cred, reqUser, status, message, errors, order) ==
  [op |-> op, cred |-> cred, user |-> reqUser, status |-> status,
   message |-> message, errors |-> errors, order |-> order,
   target |-> NoTarget, id |-> 0, issued |-> {}, failed |-> {}]

NoResponse == Response("none", NoCredential, NoPrincipal, 0, "", {}, <<>>)

sendSuccessResponse(op, cred, reqUser, status, message, order) ==
  Response(op, cred, reqUser, status, message, {}, order)

sendErrorResponse(op, cred, reqUser, status, message, errors) ==
  Response(op, cred, reqUser, status, message, errors, <<>>)

sendUnauthorizedResponse(op, cred, message) ==
  sendErrorResponse(op, cred, NoPrincipal, 401, message, {})

sendForbiddenResponse(op, cred, reqUser, message) ==
  sendErrorResponse(op, cred, reqUser, 403, message, {})

\* A not-found answer sent as an internal error.
sendNotFoundAsFailure(op, cred, reqUser, message) ==
  Response(op, cred, reqUser, 500, message, {}, <<>>)

sendNotFoundResponse(op, cred, reqUser, message) ==
  sendErrorResponse(op, cred, reqUser, 404, message, {})

(***************************************************************************)
(* The store: orders and order_items, with the schema's column types,      *)
(* CHECK constraints and foreign keys.                                     *)
(***************************************************************************)
OrderStatuses == {"pending", "processing", "shipped", "delivered", "cancelled"}

\* products rows that exist (the catalogue is not written by the order workflow).
ProductIds == {1}

\* A JavaScript double is carried in thousandths of a hundredth; one
\* multiplication and addition is off the exact value by at most FloatErr.
Micro == 1000
FloatErr == 1

\* A column that cut the digits after the second instead of rounding.
DecimalTruncate(x) == IF x >= 0 THEN x \div Micro ELSE -((-x) \div Micro)

\* total_amount DECIMAL(10, 2): the store rounds to the nearest hundredth.
DecimalRound(x) ==
  IF x >= 0 THEN (x + Micro \div 2) \div Micro
  ELSE -((-x + Micro \div 2) \div Micro)

\* An orders table without the CHECK on status.
OrderRowAnyStatus(row) ==
  /\ row.total_amount >= 0
  /\ uuid_in(row.user_id) \in DOMAIN users

\* CHECK (status IN (...)), CHECK (total_amount >= 0), user_id REFERENCES users.
OrderRowOk(row) ==
  /\ row.status \in OrderStatuses
  /\ row.total_amount >= 0
  /\ uuid_in(row.user_id) \in DOMAIN users

\* order_id REFERENCES orders, product_id REFERENCES products,
\* CHECK (quantity > 0), CHECK (price >= 0).
ItemRowOk(row) ==
  /\ row.order_id \in DOMAIN orders
  /\ row.product_id \in ProductIds
  /\ row.quantity > 0
  /\ row.price >= 0

ItemsOf(id) == {r \in order_items : r.order_id = id}

\* A rollback whose delete names no row.
OrdersKept(id) == orders

\* DELETE FROM orders WHERE id = ...; order_items.order_id is ON DELETE CASCADE.
OrdersWithout(id) == [i \in DOMAIN orders \ {id} |-> orders[i]]

\* A delete that leaves the items of the order in place.
ItemsKept(id) == order_items

\* DELETE FROM order_items WHERE order_id = ..., explicit or by the cascade.
ItemsWithout(id) == {r \in order_items : r.order_id # id}

(***************************************************************************)
(* Order create: the controller's validation, the service's validation and *)
(* total, the two inserts and the rollback.                                *)
(***************************************************************************)
\* createOrder, "Validate each item": the first failed check of one item.
ItemCheck(item) ==
  IF ~Truthy(item.product_id) \/ ~Truthy(item.quantity) \/ ~Truthy(item.price)
  THEN "Each item must have product_id, quantity, and price"
  ELSE IF isNaN(item.quantity) \/ Less(parseInt(item.quantity), 1)
  THEN "Invalid quantity value"
  ELSE IF isNaN(item.price) \/ Less(parseFloat(item.price), 0)
  THEN "Invalid price value"
  ELSE "ok"

FirstBad(items) ==
  LET bad == {i \in 1..Len(items) : ItemCheck(items[i]) # "ok"}
  IN IF bad = {} THEN 0 ELSE CHOOSE i \in bad : \A j \in bad : i <= j

\* createOrder, lines 118-140: "ok" or the message of the 400 response.
createOrderCheck(b) ==
  IF ~b.hasItems \/ Len(b.items) = 0 THEN "Order must have at least one item"
  ELSE IF FirstBad(b.items) # 0 THEN ItemCheck(b.items[FirstBad(b.items)])
  ELSE "ok"

\* OrderService.create, lines 160-173: "ok" or the message of the thrown Error.
serviceCreateCheck(b) ==
  IF ~b.hasItems \/ Len(b.items) = 0 THEN "Order must have at least one item"
  ELSE IF \E i \in 1..Len(b.items) :
            \/ ~Truthy(b.items[i].product_id)
            \/ ~Truthy(b.items[i].quantity)
            \/ ~Truthy(b.items[i].price)
  THEN "Each item must have product_id, quantity, and price"
  ELSE "ok"

\* totalAmount += parseFloat(item.price) * parseInt(item.quantity), as a double:
\* e[i] is the rounding error of step i.
RECURSIVE totalAmount(_, _, _)
totalAmount(items, e, n) ==
  IF n = 0 THEN 0
  ELSE totalAmount(items, e, n - 1)
       + parseFloat(items[n].price).n * parseInt(items[n].quantity).n * Micro
       + e[n]

FloatErrors(n) == [1..n -> (-FloatErr)..FloatErr]

\* createOrderQuery: status defaults to 'pending'.
createOrderQuery(userId, status, total) ==
  [user_id |-> userId,
   status |-> IF status = "" THEN "pending" ELSE status,
   total_amount |-> DecimalRound(total)]

\* itemsToInsert, with the column types of order_items applied.
itemsToInsert(id, items) ==
  {[order_id |-> id, line |-> i,
    product_id |-> items[i].product_id.v \div Scale,
    quantity |-> parseInt(items[i].quantity).n,
    price |-> parseFloat(items[i].price).n] : i \in 1..Len(items)}

OrderView(id) ==
  <<[id |-> id, user_id |-> orders[id].user_id, status |-> orders[id].status,
     total_amount |-> orders[id].total_amount, items |-> ItemsOf(id)]>>

\* The create request in flight; once it is answered, pc is "idle" and the
\* other fields keep what happened to it.
CrIdle == [pc |-> "idle", cred |-> NoCredential, user |-> NoPrincipal, items |-> <<>>,
           created |-> <<>>, itemsError |-> FALSE, deleteError |-> FALSE]

\* createOrder up to the first store write: the gate (dbOk: its read of the
\* user succeeds), the validation, the total (e: the rounding errors of the
\* double arithmetic) and the insert into orders (ok: the store accepts it).
createOrder(cred, b, dbOk) ==
  /\ cr.pc = "idle"
  /\ nextOrderId <= MaxOrders
  /\ LET g == authenticateToken(cred, dbOk)
     IN IF ~g.passed
        THEN /\ last' = sendUnauthorizedResponse("createOrder", cred, g.message)
             /\ cr' = CrIdle
             /\ UNCHANGED <<orders, nextOrderId>>
        ELSE IF createOrderCheck(b) # "ok"
        THEN /\ last' = sendErrorResponse("createOrder", cred, g.user, 400, createOrderCheck(b), {})
             /\ cr' = CrIdle
             /\ UNCHANGED <<orders, nextOrderId>>
        ELSE IF serviceCreateCheck(b) # "ok"
        THEN /\ last' = sendErrorResponse("createOrder", cred, g.user, 400, serviceCreateCheck(b), {})
             /\ cr' = CrIdle
             /\ UNCHANGED <<orders, nextOrderId>>
        ELSE \E ok \in BOOLEAN, e \in FloatErrors(Len(b.items)) :
             LET row == createOrderQuery(g.user.id, b.status, totalAmount(b.items, e, Len(b.items)))
                 createdOrder == [id |-> nextOrderId, user_id |-> row.user_id,
                                  status |-> row.status, total_amount |-> row.total_amount]
             IN IF ok /\ OrderRowOk(row)
                THEN /\ orders' = (nextOrderId :> createdOrder) @@ orders
                     /\ nextOrderId' = nextOrderId + 1
                     /\ cr' = [CrIdle EXCEPT !.pc = "items", !.cred = cred, !.user = g.user,
                                             !.items = b.items, !.created = <<createdOrder>>]
                     /\ UNCHANGED last
                ELSE /\ last' = sendErrorResponse("createOrder", cred, g.user, 500,
                                                  "Failed to create order", {"orderError"})
                     /\ cr' = CrIdle
                     /\ UNCHANGED <<orders, nextOrderId>>
  /\ UNCHANGED <<authVars, order_items, body, catalogVars, reg, ops, run>>

\* OrderService.create, lines 195-218: the batch insert into order_items.
insertOrderItems(ok) ==
  /\ cr.pc = "items"
  /\ LET id == cr.created[1].id
         rows == itemsToInsert(id, cr.items)
     IN IF ok /\ \A r \in rows : ItemRowOk(r)
        THEN /\ order_items' = order_items \cup rows
             /\ cr' = [cr EXCEPT !.pc = "idle"]
             /\ last' = sendSuccessResponse("createOrder", cr.cred, cr.user, 201,
                                            "Order created successfully",
                                            <<[cr.created[1] EXCEPT !.id = id] @@ [items |-> rows]>>)
        ELSE /\ cr' = [cr EXCEPT !.pc = "rollback", !.itemsError = TRUE]
             /\ UNCHANGED <<order_items, last>>
  /\ UNCHANGED <<authVars, orders, nextOrderId, body, catalogVars, reg, ops, run>>

\* OrderService.create, lines 208-213, and the controller's catch: the delete
\* of the order row, whose result is not looked at, then the 500 response.
rollbackOrder(ok) ==
  /\ cr.pc = "rollback"
  /\ LET id == cr.created[1].id
     IN IF ok
        THEN /\ orders' = OrdersWithout(id)
             /\ order_items' = ItemsWithout(id)
        ELSE UNCHANGED <<orders, order_items>>
  /\ cr' = [cr EXCEPT !.pc = "idle", !.deleteError = ~ok]
  /\ last' = sendErrorResponse("createOrder", cr.cred, cr.user, 500,
                               "Failed to create order", {"itemsError"})
  /\ UNCHANGED <<authVars, nextOrderId, body, catalogVars, reg, ops, run>>

\* A check that lets every authenticated user read every order.
AnyoneMayRead(reqUser, order) == TRUE

\* getOrderById, line 97: the requester is admin or owns the order.
MayReadOrder(reqUser, order) ==
  ~(reqUser.role # "admin" /\ order.user_id # reqUser.id)

\* getOrderById: the gate, findById (readOk: its two reads succeed), the
\* ownership check.
getOrderById(cred, id, dbOk) ==
  /\ LET g == authenticateToken(cred, dbOk)
     IN IF ~g.passed
        THEN last' = sendUnauthorizedResponse("getOrderById", cred, g.message)
        ELSE \E readOk \in BOOLEAN :
             IF ~readOk
             THEN last' = [sendErrorResponse("getOrderById", cred, g.user, 500,
                                             "Failed to fetch order", {"readError"})
                             EXCEPT !.id = id]
             ELSE IF id \notin DOMAIN orders
             THEN last' = [sendNotFoundResponse("getOrderById", cred, g.user, "Order not found")
                             EXCEPT !.id = id]
             ELSE IF ~MayReadOrder(g.user, orders[id])
             THEN last' = [sendErrorResponse("getOrderById", cred, g.user, 403, "Access denied", {})
                             EXCEPT !.id = id]
             ELSE last' = [sendSuccessResponse("getOrderById", cred, g.user, 200,
                                               "Order retrieved successfully", OrderView(id))
                             EXCEPT !.id = id]
  /\ UNCHANGED <<authVars, orderVars, body, catalogVars, reg, ops, run>>

(***************************************************************************)
(* Request payloads.                                                       *)
(***************************************************************************)
ProductIdInputs == {Undef, Num(1 * Scale)}
QuantityInputs == {Num(0), Num(1 * Scale), Num(150), Num(2 * Scale), Text}
PriceInputs == {Num(0), NumStr(0), Num(1599), Num(-100)}
StatusInputs == {"", "shipped", "bogus"}

ItemInputs == [product_id : ProductIdInputs, quantity : QuantityInputs, price : PriceInputs]

RECURSIVE SeqsUpTo(_, _)
SeqsUpTo(S, n) ==
  IF n = 0 THEN {<<>>}
  ELSE SeqsUpTo(S, n - 1) \cup {Append(q, x) : q \in {q \in SeqsUpTo(S, n - 1) : Len(q) = n - 1}, x \in S}

Bodies ==
  {[hasItems |-> FALSE, items |-> <<>>, status |-> st] : st \in StatusInputs}
  \cup {[hasItems |-> TRUE, items |-> q, status |-> st] : q \in SeqsUpTo(ItemInputs, MaxItems), st \in StatusInputs}

\* Registrations in flight: none has started.
Registrants == {1, 2}
RegIdle == [p \in Registrants |-> [pc |-> "idle", email |-> "", status |-> 0, failed |-> {}]]

\* categories and products as the database setup script leaves them once one
\* category and one product (ProductIds) have been entered.
\* Update and delete requests in flight: none has started.
Workers == {"upd", "del"}
OpsIdle ==
  [w \in Workers |->
     [pc |-> "idle", id |-> 0, set |-> "", status |-> 0, message |-> "", user |-> "",
      row |-> <<>>, missed |-> FALSE, failed |-> ""]]

\* The client of a create, read, update, read, delete, read sequence: it has
\* sent nothing and seen no response.
RunIdle ==
  [kind |-> "none", step |-> 0, id |-> 0, seen |-> NoResponse, log |-> <<>>,
   create |-> <<>>, update |-> <<>>]

InitCatalog ==
  /\ categories = (1 :> [name |-> "herbs", description |-> ""])
  /\ products = (1 :> [name |-> "tea", price |-> 1599, category_id |-> 1])
  /\ nextCategoryId = 2
  /\ nextProductId = 2

(***************************************************************************)
(* Initial states.                                                         *)
(***************************************************************************)
InitUsers ==
  [u \in UserIds |->
     [role |-> IF u = "a1" THEN "admin" ELSE "user", is_active |-> TRUE, name |-> "n0"]]

TokenPayload(u, role) == [userId |-> uuid_out(u), role |-> role]

EmptyOrders == [i \in {} |-> i]

(***************************************************************************)
(* SpecCreate: one POST /api/orders, for every payload of Bodies.          *)
(***************************************************************************)
InitCreate ==
  /\ InitCatalog
  /\ users = InitUsers
  /\ tokens = generateTokenPair(TokenPayload("u1", "user"), 0)
  /\ clock = [now |-> 0, ticks |-> 0]
  /\ orders = EmptyOrders
  /\ order_items = {}
  /\ nextOrderId = 1
  /\ cr = CrIdle
  /\ body \in Bodies
  /\ last = NoResponse
  /\ reg = RegIdle
  /\ ops = OpsIdle
  /\ run = RunIdle

CreateRequest ==
  /\ last = NoResponse
  /\ \E cred \in Credentials, dbOk \in BOOLEAN : createOrder(cred, body, dbOk)

CreateItems == \E ok \in BOOLEAN : insertOrderItems(ok)

CreateRollback == \E ok \in BOOLEAN : rollbackOrder(ok)

NextCreate == CreateRequest \/ CreateItems \/ CreateRollback

SpecCreate == InitCreate /\ [][NextCreate]_vars

(***************************************************************************)
(* Auth and user-management handlers.  Every protected route runs          *)
(* authenticateToken first (dbOk: its read of the user succeeds).          *)
(***************************************************************************)
\* login: u is the user the email belongs to ("zz": no user), pwOk the result
\* of comparePassword.  At most MaxIssued token pairs are ever issued.
login(u, pwOk, dbOk) ==
  /\ LET payload == [userId |-> uuid_out(u), role |-> users[u].role]
     IN IF ~dbOk
        THEN /\ last' = sendErrorResponse("login", NoCredential, NoPrincipal, 500, "Failed to login", {})
             /\ UNCHANGED tokens
        ELSE IF u \notin DOMAIN users
        THEN /\ last' = sendUnauthorizedResponse("login", NoCredential, "Invalid email or password")
             /\ UNCHANGED tokens
        ELSE IF ~users[u].is_active
        THEN /\ last' = [sendUnauthorizedResponse("login", NoCredential, "Account is deactivated")
                           EXCEPT !.target = uuid_out(u)]
             /\ UNCHANGED tokens
        ELSE IF ~pwOk
        THEN /\ last' = [sendUnauthorizedResponse("login", NoCredential, "Invalid email or password")
                           EXCEPT !.target = uuid_out(u)]
             /\ UNCHANGED tokens
        ELSE /\ Cardinality(tokens) < 2 * MaxIssued
             /\ tokens' = tokens \cup generateTokenPair(payload, clock.now)
             /\ last' = [sendSuccessResponse("login", NoCredential, NoPrincipal, 200, "Login successful", <<>>)
                           EXCEPT !.target = uuid_out(u),
                                  !.issued = generateTokenPair(payload, clock.now)]
  /\ UNCHANGED <<users, clock, orderVars, body, catalogVars, reg, ops, run>>

\* refreshToken: cred is the refreshToken field of the body.
refreshToken(cred, dbOk) ==
  /\ LET u == uuid_in(cred.userId)
         payload == [userId |-> uuid_out(u), role |-> users[u].role]
     IN IF cred.k = "none"
        THEN /\ last' = sendUnauthorizedResponse("refreshToken", cred, "Refresh token is required")
             /\ UNCHANGED tokens
        ELSE IF verifyRefreshToken(cred, clock.now) = "JsonWebTokenError"
        THEN /\ last' = sendUnauthorizedResponse("refreshToken", cred, "Invalid refresh token")
             /\ UNCHANGED tokens
        ELSE IF verifyRefreshToken(cred, clock.now) = "TokenExpiredError"
        THEN /\ last' = sendUnauthorizedResponse("refreshToken", cred, "Refresh token has expired")
             /\ UNCHANGED tokens
        ELSE IF ~dbOk
        THEN /\ last' = sendErrorResponse("refreshToken", cred, NoPrincipal, 500, "Failed to refresh token", {})
             /\ UNCHANGED tokens
        ELSE IF u \notin DOMAIN users
        THEN /\ last' = sendUnauthorizedResponse("refreshToken", cred, "User not found")
             /\ UNCHANGED tokens
        ELSE IF ~users[u].is_active
        THEN /\ last' = sendUnauthorizedResponse("refreshToken", cred, "Account is deactivated")
             /\ UNCHANGED tokens
        ELSE /\ Cardinality(tokens) < 2 * MaxIssued
             /\ tokens' = tokens \cup generateTokenPair(payload, clock.now)
             /\ last' = [sendSuccessResponse("refreshToken", cred, NoPrincipal, 200,
                                             "Token refreshed successfully", <<>>)
                           EXCEPT !.issued = generateTokenPair(payload, clock.now)]
  /\ UNCHANGED <<users, clock, orderVars, body, catalogVars, reg, ops, run>>

\* getProfile, behind authenticateToken.
getProfile(cred, dbOk) ==
  /\ LET g == authenticateToken(cred, dbOk)
     IN IF ~g.passed
        THEN last' = sendUnauthorizedResponse("getProfile", cred, g.message)
        ELSE \E readOk \in BOOLEAN :
             IF ~readOk
             THEN last' = sendErrorResponse("getProfile", cred, g.user, 500, "Failed to retrieve profile", {})
             ELSE last' = [sendSuccessResponse("getProfile", cred, g.user, 200,
                                               "Profile retrieved successfully", <<>>)
                             EXCEPT !.target = g.user.id]
  /\ UNCHANGED <<authVars, orderVars, body, catalogVars, reg, ops, run>>

\* updateProfile: writes name (phone, department, position alike) of req.user.id.
updateProfile(cred, dbOk) ==
  /\ LET g == authenticateToken(cred, dbOk)
         u == uuid_in(g.user.id)
     IN IF ~g.passed
        THEN /\ last' = sendUnauthorizedResponse("updateProfile", cred, g.message)
             /\ UNCHANGED users
        ELSE \E name \in {"", "n1"}, ok \in BOOLEAN :
             IF ~ok
             THEN /\ last' = sendErrorResponse("updateProfile", cred, g.user, 500,
                                               "Failed to update profile", {})
                  /\ UNCHANGED users
             ELSE /\ users' = [users EXCEPT ![u].name = IF name # "" THEN name ELSE @]
                  /\ last' = [sendSuccessResponse("updateProfile", cred, g.user, 200,
                                                  "Profile updated successfully", <<>>)
                                EXCEPT !.target = g.user.id]
  /\ UNCHANGED <<tokens, clock, orderVars, body, catalogVars, reg, ops, run>>

\* updateUser (admin): the fields present in the body are written to the row
\* the id text resolves to (fault: the store call that fails, if any).
updateUser(cred, id, dbOk, bodies) ==
  /\ LET g == authenticateToken(cred, dbOk)
         t == uuid_in(id)
     IN IF ~g.passed
        THEN /\ last' = sendUnauthorizedResponse("updateUser", cred, g.message)
             /\ UNCHANGED users
        ELSE IF ~requireAdmin(g.user)
        THEN /\ last' = [sendForbiddenResponse("updateUser", cred, g.user, "Insufficient permissions")
                           EXCEPT !.target = id]
             /\ UNCHANGED users
        ELSE \E fault \in {"none", "read", "write"} :
             IF fault = "read"
             THEN /\ last' = [sendErrorResponse("updateUser", cred, g.user, 500,
                                                "Failed to update user", {})
                                EXCEPT !.target = id]
                  /\ UNCHANGED users
             ELSE IF t \notin DOMAIN users
             THEN /\ last' = [sendNotFoundResponse("updateUser", cred, g.user, "User not found")
                                EXCEPT !.target = id]
                  /\ UNCHANGED users
             ELSE IF fault = "write"
             THEN /\ last' = [sendErrorResponse("updateUser", cred, g.user, 500,
                                                "Failed to update user", {})
                                EXCEPT !.target = id]
                  /\ UNCHANGED users
             ELSE \E b \in bodies :
                  /\ users' = [users EXCEPT
                                 ![t].name = IF b.name # "" THEN b.name ELSE @,
                                 ![t].role = IF b.role # "" THEN b.role ELSE @,
                                 ![t].is_active = IF b.is_active = "absent" THEN @
                                                  ELSE b.is_active = "true"]
                  /\ last' = [sendSuccessResponse("updateUser", cred, g.user, 200,
                                                  "User updated successfully", <<>>)
                                EXCEPT !.target = id]
  /\ UNCHANGED <<tokens, clock, orderVars, body, catalogVars, reg, ops, run>>

\* userService.deactivate: UPDATE users SET is_active = false WHERE id = ...
deactivate(id) == [users EXCEPT ![uuid_in(id)].is_active = FALSE]

\* deactivateUser (admin): DELETE /api/users/:id.
deactivateUser(cred, id, dbOk) ==
  /\ LET g == authenticateToken(cred, dbOk)
     IN IF ~g.passed
        THEN /\ last' = sendUnauthorizedResponse("deactivateUser", cred, g.message)
             /\ UNCHANGED users
        ELSE IF ~requireAdmin(g.user)
        THEN /\ last' = [sendForbiddenResponse("deactivateUser", cred, g.user, "Insufficient permissions")
                           EXCEPT !.target = id]
             /\ UNCHANGED users
        ELSE \E fault \in {"none", "read", "write"} :
             IF fault = "read"
             THEN /\ last' = [sendErrorResponse("deactivateUser", cred, g.user, 500,
                                                "Failed to deactivate user", {})
                                EXCEPT !.target = id]
                  /\ UNCHANGED users
             ELSE IF uuid_in(id) \notin DOMAIN users
             THEN /\ last' = [sendNotFoundResponse("deactivateUser", cred, g.user, "User not found")
                                EXCEPT !.target = id]
                  /\ UNCHANGED users
             ELSE IF StrictEquals(id, g.user.id)
             THEN /\ last' = [sendErrorResponse("deactivateUser", cred, g.user, 400,
                                                "You cannot deactivate your own account", {})
                                EXCEPT !.target = id]
                  /\ UNCHANGED users
             ELSE IF fault = "write"
             THEN /\ last' = [sendErrorResponse("deactivateUser", cred, g.user, 500,
                                                "Failed to deactivate user", {})
                                EXCEPT !.target = id]
                  /\ UNCHANGED users
             ELSE /\ users' = deactivate(id)
                  /\ last' = [sendSuccessResponse("deactivateUser", cred, g.user, 200,
                                                  "User deactivated successfully", <<>>)
                                EXCEPT !.target = id]
  /\ UNCHANGED <<tokens, clock, orderVars, body, catalogVars, reg, ops, run>>

\* Time passes by d.
Tick(d) ==
  /\ clock.ticks < MaxTicks
  /\ clock' = [now |-> clock.now + d, ticks |-> clock.ticks + 1]
  /\ UNCHANGED <<users, tokens, orderVars, body, last, catalogVars, reg, ops, run>>

(***************************************************************************)
(* SpecAuth: logins, token refreshes and requests through the gate while   *)
(* an admin activates, deactivates, promotes and demotes.                  *)
(***************************************************************************)
AuthUserIds == {"a1", "u1"}
IdTexts == {IdText("a1", "lower"), IdText("a1", "upper"), IdText("u1", "lower"), IdText("zz", "lower")}

\* The body of PUT /api/users/:id: "" is an absent string field, "absent" an
\* absent is_active.
UpdateBodies == [name : {"", "n1"}, role : {"", "user", "admin"}, is_active : {"absent", "true", "false"}]
RoleAndActiveBodies == {b \in UpdateBodies : b.name = ""}

NoBody == [hasItems |-> FALSE, items |-> <<>>, status |-> ""]

InitAuth ==
  /\ InitCatalog
  /\ users = [u \in AuthUserIds |-> InitUsers[u]]
  /\ tokens = {}
  /\ clock = [now |-> 0, ticks |-> 0]
  /\ orders = EmptyOrders
  /\ order_items = {}
  /\ nextOrderId = 1
  /\ cr = CrIdle
  /\ body = NoBody
  /\ last = NoResponse
  /\ reg = RegIdle
  /\ ops = OpsIdle
  /\ run = RunIdle

Login == \E u \in AuthUserIds \cup {"zz"}, pwOk \in BOOLEAN, dbOk \in BOOLEAN : login(u, pwOk, dbOk)

Refresh == \E cred \in Credentials, dbOk \in BOOLEAN : refreshToken(cred, dbOk)

GetProfile == \E cred \in Credentials, dbOk \in BOOLEAN : getProfile(cred, dbOk)

AdminUpdate ==
  \E cred \in Credentials, id \in IdTexts, dbOk \in BOOLEAN :
    updateUser(cred, id, dbOk, RoleAndActiveBodies)

DeactivateUser ==
  \E cred \in Credentials, id \in IdTexts, dbOk \in BOOLEAN : deactivateUser(cred, id, dbOk)

NextAuth == Login \/ Refresh \/ GetProfile \/ AdminUpdate \/ DeactivateUser

SpecAuth == InitAuth /\ [][NextAuth]_vars

(***************************************************************************)
(* SpecUsers: an admin and a user, both logged in, managing accounts and   *)
(* profiles while their tokens age.                                        *)
(***************************************************************************)
InitUsersSpec ==
  /\ InitCatalog
  /\ users = [u \in AuthUserIds |-> InitUsers[u]]
  /\ tokens = generateTokenPair(TokenPayload("a1", "admin"), 0)
              \cup generateTokenPair(TokenPayload("u1", "user"), 0)
  /\ clock = [now |-> 0, ticks |-> 0]
  /\ orders = EmptyOrders
  /\ order_items = {}
  /\ nextOrderId = 1
  /\ cr = CrIdle
  /\ body = NoBody
  /\ last = NoResponse
  /\ reg = RegIdle
  /\ ops = OpsIdle
  /\ run = RunIdle

UpdateProfile == \E cred \in Credentials, dbOk \in BOOLEAN : updateProfile(cred, dbOk)

UpdateUser ==
  \E cred \in Credentials, id \in IdTexts, dbOk \in BOOLEAN : updateUser(cred, id, dbOk, UpdateBodies)

Deactivate ==
  \E cred \in Credentials, id \in IdTexts, dbOk \in BOOLEAN : deactivateUser(cred, id, dbOk)

TimePasses == Tick(AccessTtl)

NextUsers == UpdateProfile \/ UpdateUser \/ Deactivate \/ TimePasses

SpecUsers == InitUsersSpec /\ [][NextUsers]_vars

(***************************************************************************)
(* Categories: the admin routes of the category router.                    *)
(***************************************************************************)
\* A body field that is absent (undefined).
NoField == "undefined"

\* String.prototype.trim on the texts the requests carry.
Trim(s) == CASE s = " " -> ""
             [] s = " teas " -> "teas"
             [] OTHER -> s

\* authenticateToken, requireAdmin in front of a handler.
AdminGate(op, cred, dbOk) ==
  LET g == authenticateToken(cred, dbOk)
  IN IF ~g.passed
     THEN [passed |-> FALSE, user |-> NoPrincipal,
           response |-> sendUnauthorizedResponse(op, cred, g.message)]
     ELSE IF ~requireAdmin(g.user)
     THEN [passed |-> FALSE, user |-> g.user,
           response |-> sendForbiddenResponse(op, cred, g.user, "Insufficient permissions")]
     ELSE [passed |-> TRUE, user |-> g.user, response |-> NoResponse]

\* categories.name VARCHAR(255) NOT NULL UNIQUE, for a row written under id.
CategoryRowOk(id, row) ==
  \A c \in DOMAIN categories : c # id => categories[c].name # row.name

\* The products referencing a category.
getProductsByCategory(id) == {q \in DOMAIN products : products[q].category_id = id}

\* A delete statement that leaves the referencing products as they are.
ProductsKept(id) == products

\* Products after a category is deleted: category_id ... ON DELETE SET NULL
\* (0 stands for NULL).
ProductsSetNull(id) ==
  [q \in DOMAIN products |->
     IF products[q].category_id = id THEN [products[q] EXCEPT !.category_id = 0]
     ELSE products[q]]

\* A delete statement that names no row.
CategoriesKept(id) == categories

CategoriesWithout(id) == [c \in DOMAIN categories \ {id} |-> categories[c]]

\* createCategory and CategoryService.create.
createCategory(cred, b, dbOk) ==
  /\ LET a == AdminGate("createCategory", cred, dbOk)
         row == [name |-> Trim(b.name),
                 description |-> IF b.description \in {NoField, ""} THEN "" ELSE Trim(b.description)]
     IN IF ~a.passed
        THEN last' = a.response /\ UNCHANGED <<categories, nextCategoryId>>
        ELSE IF b.name \in {NoField, ""}
        THEN /\ last' = sendErrorResponse("createCategory", cred, a.user, 400,
                                          "Category name is required", {})
             /\ UNCHANGED <<categories, nextCategoryId>>
        ELSE IF row.name = ""
        THEN /\ last' = sendErrorResponse("createCategory", cred, a.user, 400,
                                          "Category name is required", {})
             /\ UNCHANGED <<categories, nextCategoryId>>
        ELSE \E ok \in BOOLEAN :
             IF ok /\ CategoryRowOk(nextCategoryId, row)
             THEN /\ nextCategoryId <= MaxCategories
                  /\ categories' = (nextCategoryId :> row) @@ categories
                  /\ nextCategoryId' = nextCategoryId + 1
                  /\ last' = [sendSuccessResponse("createCategory", cred, a.user, 201,
                                                  "Category created successfully",
                                                  <<[id |-> nextCategoryId] @@ row>>)
                                EXCEPT !.id = nextCategoryId]
             ELSE /\ last' = sendErrorResponse("createCategory", cred, a.user, 500,
                                               "Failed to create category", {"error"})
                  /\ UNCHANGED <<categories, nextCategoryId>>
  /\ UNCHANGED <<authVars, orderVars, body, products, nextProductId, reg, ops, run>>

\* updateCategoryQuery: only the fields the body carries are written.
updateCategoryQuery(id, b) ==
  [name |-> IF b.name # NoField THEN Trim(b.name) ELSE categories[id].name,
   description |-> IF b.description = NoField THEN categories[id].description
                   ELSE IF b.description = "" THEN ""
                   ELSE Trim(b.description)]

\* findById of the three services: the row with this id exists.
Found(rows, id) == id \in DOMAIN rows

\* updateCategory and CategoryService.update.  fault: the store call that
\* fails, if any.
updateCategory(cred, id, b, dbOk) ==
  /\ LET a == AdminGate("updateCategory", cred, dbOk)
     IN IF ~a.passed
        THEN last' = a.response /\ UNCHANGED categories
        ELSE IF b.name = NoField /\ b.description = NoField
        THEN /\ last' = [sendErrorResponse("updateCategory", cred, a.user, 400,
                                           "No fields to update", {}) EXCEPT !.id = id]
             /\ UNCHANGED categories
        ELSE \E fault \in {"none", "read", "write"} :
             IF fault = "read"
             THEN /\ last' = [sendErrorResponse("updateCategory", cred, a.user, 500,
                                                "Failed to update category", {"error"})
                                EXCEPT !.id = id]
                  /\ UNCHANGED categories
             ELSE IF ~Found(categories, id)
             THEN /\ last' = [sendNotFoundResponse("updateCategory", cred, a.user,
                                                   "Category not found") EXCEPT !.id = id]
                  /\ UNCHANGED categories
             ELSE IF fault = "write" \/ ~CategoryRowOk(id, updateCategoryQuery(id, b))
             THEN /\ last' = [sendErrorResponse("updateCategory", cred, a.user, 500,
                                                "Failed to update category", {"error"})
                                EXCEPT !.id = id]
                  /\ UNCHANGED categories
             ELSE /\ categories' = [categories EXCEPT ![id] = updateCategoryQuery(id, b)]
                  /\ last' = [sendSuccessResponse("updateCategory", cred, a.user, 200,
                                                  "Category updated successfully",
                                                  <<[id |-> id] @@ updateCategoryQuery(id, b)>>)
                                EXCEPT !.id = id]
  /\ UNCHANGED <<authVars, orderVars, body, products, nextCategoryId, nextProductId, reg, ops, run>>

\* CategoryService.delete, lines 150-162: products && products.length > 0.
\* The products of a failed check are null: the failure is logged and the
\* delete goes on.
HasProducts(id, fault) == fault # "check" /\ getProductsByCategory(id) # {}

\* deleteCategory and CategoryService.delete.  fault: the store call that
\* fails, if any (read: findById, check: the products query, write: the delete).
deleteCategory(cred, id, dbOk) ==
  /\ LET a == AdminGate("deleteCategory", cred, dbOk)
     IN IF ~a.passed
        THEN last' = a.response /\ UNCHANGED <<categories, products>>
        ELSE \E fault \in {"none", "read", "check", "write"} :
             IF fault = "read"
             THEN /\ last' = [sendErrorResponse("deleteCategory", cred, a.user, 500,
                                                "Failed to delete category", {"error"})
                                EXCEPT !.id = id]
                  /\ UNCHANGED <<categories, products>>
             ELSE IF ~Found(categories, id)
             THEN /\ last' = [sendNotFoundResponse("deleteCategory", cred, a.user,
                                                   "Category not found") EXCEPT !.id = id]
                  /\ UNCHANGED <<categories, products>>
             ELSE IF HasProducts(id, fault)
             THEN /\ last' = [sendErrorResponse("deleteCategory", cred, a.user, 400,
                                                "Cannot delete category with existing products", {})
                                EXCEPT !.id = id]
                  /\ UNCHANGED <<categories, products>>
             ELSE IF fault = "write"
             THEN /\ last' = [sendErrorResponse("deleteCategory", cred, a.user, 500,
                                                "Failed to delete category", {"error"})
                                EXCEPT !.id = id]
                  /\ UNCHANGED <<categories, products>>
             ELSE /\ categories' = CategoriesWithout(id)
                  /\ products' = ProductsSetNull(id)
                  /\ last' = [sendSuccessResponse("deleteCategory", cred, a.user, 200,
                                                  "Category deleted successfully", <<>>)
                                EXCEPT !.id = id,
                                       !.failed = IF fault = "check" THEN {"check"} ELSE {}]
  /\ UNCHANGED <<authVars, orderVars, body, nextCategoryId, nextProductId, reg, ops, run>>

(***************************************************************************)
(* Products: the admin routes of the product router.                       *)
(***************************************************************************)
\* A category_id the body does not carry (undefined); 0 is null.
NoId == -1

\* price DECIMAL(10, 2) CHECK (price >= 0), category_id REFERENCES categories.
ProductRowOk(row) ==
  /\ row.price >= 0
  /\ row.category_id = 0 \/ row.category_id \in DOMAIN categories

\* createProductQuery: category_id || null.
createProductQuery(b) ==
  [name |-> Trim(b.name), price |-> parseFloat(b.price).n,
   category_id |-> IF b.category_id = NoId THEN 0 ELSE b.category_id]

\* createProduct and ProductService.create.
createProduct(cred, b, dbOk) ==
  /\ LET a == AdminGate("createProduct", cred, dbOk)
         Reject(status, message, errors) ==
           /\ last' = sendErrorResponse("createProduct", cred, a.user, status, message, errors)
           /\ UNCHANGED <<products, nextProductId>>
     IN IF ~a.passed
        THEN last' = a.response /\ UNCHANGED <<products, nextProductId>>
        ELSE IF b.name \in {NoField, ""} \/ ~Truthy(b.price)
        THEN Reject(400, "Product name and price are required", {})
        ELSE IF isNaN(b.price) \/ Less(parseFloat(b.price), 0)
        THEN Reject(400, "Invalid price value", {})
        ELSE IF Trim(b.name) = "" \/ parseFloat(b.price).n = 0
        THEN Reject(400, "Product name and price are required", {})
        ELSE \E ok \in BOOLEAN :
             IF ok /\ ProductRowOk(createProductQuery(b))
             THEN /\ nextProductId <= MaxProducts
                  /\ products' = (nextProductId :> createProductQuery(b)) @@ products
                  /\ nextProductId' = nextProductId + 1
                  /\ last' = [sendSuccessResponse("createProduct", cred, a.user, 201,
                                                  "Product created successfully",
                                                  <<[id |-> nextProductId] @@ createProductQuery(b)>>)
                                EXCEPT !.id = nextProductId]
             ELSE Reject(500, "Failed to create product", {"error"})
  /\ UNCHANGED <<authVars, orderVars, body, categories, nextCategoryId, reg, ops, run>>

\* updateProductQuery: only the fields the body carries are written.
updateProductQuery(id, b) ==
  [name |-> IF b.name # NoField THEN Trim(b.name) ELSE products[id].name,
   price |-> IF b.price # Undef THEN parseFloat(b.price).n ELSE products[id].price,
   category_id |-> IF b.category_id # NoId THEN b.category_id ELSE products[id].category_id]

\* updateProduct and ProductService.update.
updateProduct(cred, id, b, dbOk) ==
  /\ LET a == AdminGate("updateProduct", cred, dbOk)
         Reject(status, message, errors) ==
           /\ last' = [sendErrorResponse("updateProduct", cred, a.user, status, message, errors)
                         EXCEPT !.id = id]
           /\ UNCHANGED products
     IN IF ~a.passed
        THEN last' = a.response /\ UNCHANGED products
        ELSE IF b.price # Undef /\ (isNaN(b.price) \/ Less(parseFloat(b.price), 0))
        THEN Reject(400, "Invalid price value", {})
        ELSE IF b.name = NoField /\ b.price = Undef /\ b.category_id = NoId
        THEN Reject(400, "No fields to update", {})
        ELSE \E fault \in {"none", "read", "write"} :
             IF fault = "read"
             THEN Reject(500, "Failed to update product", {"error"})
             ELSE IF ~Found(products, id)
             THEN /\ last' = [sendNotFoundResponse("updateProduct", cred, a.user,
                                                   "Product not found") EXCEPT !.id = id]
                  /\ UNCHANGED products
             ELSE IF fault = "write" \/ ~ProductRowOk(updateProductQuery(id, b))
             THEN Reject(500, "Failed to update product", {"error"})
             ELSE /\ products' = [products EXCEPT ![id] = updateProductQuery(id, b)]
                  /\ last' = [sendSuccessResponse("updateProduct", cred, a.user, 200,
                                                  "Product updated successfully",
                                                  <<[id |-> id] @@ updateProductQuery(id, b)>>)
                                EXCEPT !.id = id]
  /\ UNCHANGED <<authVars, orderVars, body, categories, nextCategoryId, nextProductId, reg, ops, run>>

ProductsWithout(id) == [q \in DOMAIN products \ {id} |-> products[q]]

\* deleteProduct and ProductService.delete; order_items.product_id is
\* ON DELETE RESTRICT.
deleteProduct(cred, id, dbOk) ==
  /\ LET a == AdminGate("deleteProduct", cred, dbOk)
         Reject(status, message, errors) ==
           /\ last' = [sendErrorResponse("deleteProduct", cred, a.user, status, message, errors)
                         EXCEPT !.id = id]
           /\ UNCHANGED products
     IN IF ~a.passed
        THEN last' = a.response /\ UNCHANGED products
        ELSE \E fault \in {"none", "read", "write"} :
             IF fault = "read"
             THEN Reject(500, "Failed to delete product", {"error"})
             ELSE IF ~Found(products, id)
             THEN /\ last' = [sendNotFoundResponse("deleteProduct", cred, a.user,
                                                   "Product not found") EXCEPT !.id = id]
                  /\ UNCHANGED products
             ELSE IF fault = "write" \/ (\E r \in order_items : r.product_id = id)
             THEN Reject(500, "Failed to delete product", {"error"})
             ELSE /\ products' = ProductsWithout(id)
                  /\ last' = [sendSuccessResponse("deleteProduct", cred, a.user, 200,
                                                  "Product deleted successfully", <<>>)
                                EXCEPT !.id = id]
  /\ UNCHANGED <<authVars, orderVars, body, categories, nextCategoryId, nextProductId, reg, ops, run>>

\* An update that also writes a total.
updateOrderQueryWithTotal(row, data) ==
  [row EXCEPT !.status = IF data.status # NoField THEN data.status ELSE @,
              !.total_amount = 0]

\* updateOrderQuery: only the fields the data carries are written.
updateOrderQuery(row, data) ==
  [row EXCEPT !.status = IF data.status # NoField THEN data.status ELSE @,
              !.total_amount = IF data.total_amount # Undef
                               THEN parseFloat(data.total_amount).n ELSE @]

\* const updateData = { status }
updateData(status) == [status |-> status, total_amount |-> Undef]

(***************************************************************************)
(* Orders: the admin routes of the order router.                           *)
(***************************************************************************)
\* updateOrder and OrderService.update.  fault: the store call that fails, if
\* any (read: findById, write: the update, reread: getOrderItems after it).
updateOrder(cred, id, status, dbOk) ==
  /\ LET a == AdminGate("updateOrder", cred, dbOk)
         Reject(code, message, errors) ==
           last' = [sendErrorResponse("updateOrder", cred, a.user, code, message, errors)
                      EXCEPT !.id = id]
     IN IF ~a.passed
        THEN last' = a.response /\ UNCHANGED orders
        ELSE IF status = ""
        THEN Reject(400, "Status is required", {}) /\ UNCHANGED orders
        ELSE IF status \notin OrderStatuses
        THEN Reject(400, "Invalid status. Must be one of: pending, processing, shipped, delivered, cancelled", {})
             /\ UNCHANGED orders
        ELSE \E fault \in {"none", "read", "write", "reread"} :
             IF fault = "read"
             THEN Reject(500, "Failed to update order", {"error"}) /\ UNCHANGED orders
             ELSE IF ~Found(orders, id)
             THEN /\ last' = [sendNotFoundResponse("updateOrder", cred, a.user, "Order not found")
                                EXCEPT !.id = id]
                  /\ UNCHANGED orders
             ELSE IF fault = "write"
             THEN Reject(500, "Failed to update order", {"error"}) /\ UNCHANGED orders
             ELSE /\ orders' = [orders EXCEPT ![id] = updateOrderQuery(@, updateData(status))]
                  /\ IF fault = "reread"
                     THEN Reject(500, "Failed to update order", {"error"})
                     ELSE last' = [sendSuccessResponse("updateOrder", cred, a.user, 200,
                                                       "Order updated successfully",
                                                       <<[OrderView(id)[1] EXCEPT !.status = status]>>)
                                     EXCEPT !.id = id]
  /\ UNCHANGED <<authVars, order_items, nextOrderId, cr, body, catalogVars, reg, ops, run>>

\* deleteOrder and OrderService.delete.  fault: the store call that fails, if
\* any (read: findById, items: the delete of the items, write: the delete of
\* the order).
deleteOrder(cred, id, dbOk) ==
  /\ LET a == AdminGate("deleteOrder", cred, dbOk)
         Reject(code, message, errors) ==
           last' = [sendErrorResponse("deleteOrder", cred, a.user, code, message, errors)
                      EXCEPT !.id = id]
     IN IF ~a.passed
        THEN last' = a.response /\ UNCHANGED <<orders, order_items>>
        ELSE \E fault \in {"none", "read", "items", "write"} :
             IF fault = "read"
             THEN Reject(500, "Failed to delete order", {"error"}) /\ UNCHANGED <<orders, order_items>>
             ELSE IF ~Found(orders, id)
             THEN /\ last' = [sendNotFoundResponse("deleteOrder", cred, a.user, "Order not found")
                                EXCEPT !.id = id]
                  /\ UNCHANGED <<orders, order_items>>
             ELSE IF fault = "items"
             THEN Reject(500, "Failed to delete order", {"error"}) /\ UNCHANGED <<orders, order_items>>
             ELSE IF fault = "write"
             THEN /\ order_items' = ItemsWithout(id)
                  /\ Reject(500, "Failed to delete order", {"error"})
                  /\ UNCHANGED orders
             ELSE /\ order_items' = ItemsWithout(id)
                  /\ orders' = OrdersWithout(id)
                  /\ last' = [sendSuccessResponse("deleteOrder", cred, a.user, 200,
                                                  "Order deleted successfully", <<>>)
                                EXCEPT !.id = id]
  /\ UNCHANGED <<authVars, nextOrderId, cr, body, catalogVars, reg, ops, run>>

(***************************************************************************)
(* SpecOrder: three logged-in users (an admin and two customers) creating  *)
(* and reading orders.                                                     *)
(***************************************************************************)
OneItem == [product_id |-> Num(1 * Scale), quantity |-> Num(1 * Scale), price |-> Num(1599)]
SampleBodies ==
  {[hasItems |-> TRUE, items |-> <<OneItem>>, status |-> ""],
   [hasItems |-> TRUE, items |-> <<>>, status |-> ""]}

InitOrder ==
  /\ InitCatalog
  /\ users = InitUsers
  /\ tokens = {generateAccessToken(TokenPayload(u, InitUsers[u].role), 0) : u \in UserIds}
  /\ clock = [now |-> 0, ticks |-> 0]
  /\ orders = EmptyOrders
  /\ order_items = {}
  /\ nextOrderId = 1
  /\ cr = CrIdle
  /\ body = [hasItems |-> FALSE, items |-> <<>>, status |-> ""]
  /\ last = NoResponse
  /\ reg = RegIdle
  /\ ops = OpsIdle
  /\ run = RunIdle

OrderCreate ==
  \E cred \in Credentials, b \in SampleBodies, dbOk \in BOOLEAN : createOrder(cred, b, dbOk)

OrderRead ==
  \E cred \in Credentials, id \in 1..(MaxOrders + 1), dbOk \in BOOLEAN : getOrderById(cred, id, dbOk)

OrderRemove ==
  \E cred \in Credentials, id \in 1..MaxOrders, dbOk \in BOOLEAN : deleteOrder(cred, id, dbOk)

NextOrder == OrderCreate \/ CreateItems \/ CreateRollback \/ OrderRead \/ OrderRemove

SpecOrder == InitOrder /\ [][NextOrder]_vars

(***************************************************************************)
(* SpecAdmin: the admin routes of categories, products and orders, called  *)
(* by an admin, a customer, a deactivated admin and callers without a      *)
(* valid token, over a store holding two categories, two products and an   *)
(* order, until one of the requests writes to the store.                   *)
(***************************************************************************)
CategoryBodies ==
  {[name |-> " teas ", description |-> NoField],
   [name |-> "roots", description |-> "d"],
   [name |-> NoField, description |-> NoField],
   [name |-> " ", description |-> "d"]}

ProductBodies ==
  {[name |-> "tea", price |-> Num(1599), category_id |-> 1],
   [name |-> "tea", price |-> Num(0), category_id |-> NoId],
   [name |-> NoField, price |-> Undef, category_id |-> NoId],
   [name |-> NoField, price |-> Undef, category_id |-> 0],
   [name |-> NoField, price |-> NumStr(0), category_id |-> MaxCategories + 1],
   [name |-> NoField, price |-> Num(-100), category_id |-> NoId]}

StatusBodies == {"", "shipped", "bogus"}

AdminUsers == [InitUsers EXCEPT !["u2"] = [@ EXCEPT !.role = "admin", !.is_active = FALSE]]

StoredCategories ==
  (1 :> [name |-> "herbs", description |-> ""]) @@ (2 :> [name |-> "teas", description |-> ""])

StoredProducts ==
  (1 :> [name |-> "tea", price |-> 1599, category_id |-> 1])
    @@ (2 :> [name |-> "mint", price |-> 500, category_id |-> 0])

StoredOrder == [id |-> 1, user_id |-> uuid_out("u1"), status |-> "pending", total_amount |-> 1599]
StoredItem == [order_id |-> 1, line |-> 1, product_id |-> 1, quantity |-> 1, price |-> 1599]

InitAdmin ==
  /\ categories = StoredCategories
  /\ products = StoredProducts
  /\ nextCategoryId = 3
  /\ nextProductId = 3
  /\ users = AdminUsers
  /\ tokens = {generateAccessToken(TokenPayload(u, AdminUsers[u].role), 0) : u \in UserIds}
  /\ clock = [now |-> 0, ticks |-> 0]
  /\ orders = (1 :> StoredOrder)
  /\ order_items = {StoredItem}
  /\ nextOrderId = 2
  /\ cr = CrIdle
  /\ body = [hasItems |-> FALSE, items |-> <<>>, status |-> ""]
  /\ last = NoResponse
  /\ reg = RegIdle
  /\ ops = OpsIdle
  /\ run = RunIdle

\* No request has written to the store yet.
StoreUntouched ==
  /\ categories = StoredCategories /\ products = StoredProducts
  /\ orders = (1 :> StoredOrder) /\ order_items = {StoredItem}

CategoryCreate ==
  /\ StoreUntouched
  /\ \E cred \in Credentials, b \in CategoryBodies, dbOk \in BOOLEAN : createCategory(cred, b, dbOk)

CategoryUpdate ==
  /\ StoreUntouched
  /\ \E cred \in Credentials, id \in 1..(MaxCategories + 1), b \in CategoryBodies, dbOk \in BOOLEAN :
       updateCategory(cred, id, b, dbOk)

CategoryDelete ==
  /\ StoreUntouched
  /\ \E cred \in Credentials, id \in 1..(MaxCategories + 1), dbOk \in BOOLEAN :
       deleteCategory(cred, id, dbOk)

ProductCreate ==
  /\ StoreUntouched
  /\ \E cred \in Credentials, b \in ProductBodies, dbOk \in BOOLEAN : createProduct(cred, b, dbOk)

ProductUpdate ==
  /\ StoreUntouched
  /\ \E cred \in Credentials, id \in 1..(MaxProducts + 1), b \in ProductBodies, dbOk \in BOOLEAN :
       updateProduct(cred, id, b, dbOk)

ProductDelete ==
  /\ StoreUntouched
  /\ \E cred \in Credentials, id \in 1..(MaxProducts + 1), dbOk \in BOOLEAN :
       deleteProduct(cred, id, dbOk)

OrderUpdate ==
  /\ StoreUntouched
  /\ \E cred \in Credentials, id \in 1..(MaxOrders + 1), status \in StatusBodies, dbOk \in BOOLEAN :
       updateOrder(cred, id, status, dbOk)

OrderDelete ==
  /\ StoreUntouched
  /\ \E cred \in Credentials, id \in 1..(MaxOrders + 1), dbOk \in BOOLEAN : deleteOrder(cred, id, dbOk)

NextAdmin ==
  \/ CategoryCreate \/ CategoryUpdate \/ CategoryDelete
  \/ ProductCreate \/ ProductUpdate \/ ProductDelete
  \/ OrderUpdate \/ OrderDelete

SpecAdmin == InitAdmin /\ [][NextAdmin]_vars

(***************************************************************************)
(* requireOwnership, and SpecOwnership: the middleware applied to every    *)
(* request the bounded inputs describe.                                    *)
(***************************************************************************)
\* req.params[userIdField] || req.body[userIdField]; NoTarget is a field that
\* is absent or empty.
resourceUserId(params, reqBody) == IF params # NoTarget THEN params ELSE reqBody

\* requireOwnership(userIdField): req.user is NoPrincipal when no gate ran.
requireOwnership(reqUser, params, reqBody) ==
  IF reqUser = NoPrincipal
  THEN sendUnauthorizedResponse("requireOwnership", NoCredential, "Authentication required")
  ELSE IF resourceUserId(params, reqBody) = NoTarget
  THEN sendForbiddenResponse("requireOwnership", NoCredential, reqUser, "Resource user ID not found")
  ELSE IF reqUser.role = "admin" \/ StrictEquals(reqUser.id, resourceUserId(params, reqBody))
  THEN Response("requireOwnership", NoCredential, reqUser, 200, "next", {}, <<>>)
  ELSE sendForbiddenResponse("requireOwnership", NoCredential, reqUser,
                             "Access denied: You can only access your own resources")

OwnerIdInputs == {NoTarget} \cup {IdText(u, f) : u \in UserIds, f \in {"lower", "upper"}}

PrincipalInputs ==
  {NoPrincipal} \cup {[id |-> uuid_out(u), role |-> r] : u \in UserIds, r \in {"user", "manager", "admin"}}

InitOwnership ==
  /\ InitCatalog
  /\ users = InitUsers
  /\ tokens = {}
  /\ clock = [now |-> 0, ticks |-> 0]
  /\ orders = EmptyOrders
  /\ order_items = {}
  /\ nextOrderId = 1
  /\ cr = CrIdle
  /\ body \in [user : PrincipalInputs, params : OwnerIdInputs, body : OwnerIdInputs]
  /\ last = NoResponse
  /\ reg = RegIdle
  /\ ops = OpsIdle
  /\ run = RunIdle

RequireOwnership ==
  /\ last = NoResponse
  /\ last' = requireOwnership(body.user, body.params, body.body)
  /\ UNCHANGED <<authVars, orderVars, body, catalogVars, reg, ops, run>>

NextOwnership == RequireOwnership

SpecOwnership == InitOwnership /\ [][NextOwnership]_vars

(***************************************************************************)
(* Registration, and SpecRegister: two clients registering at the same     *)
(* time over a store that already holds one user.                          *)
(***************************************************************************)
\* The users row a registration inserts (gen_random_uuid gives each its id).
NewUserId(p) == IF p = 1 THEN "r1" ELSE "r2"

\* userService.findByEmail
findByEmail(email) == {u \in DOMAIN users : users[u].email = email}

\* register, lines 18-24: findByEmail, the 409 answer.  dbOk: the read succeeds.
registerCheck(p, email, dbOk) ==
  /\ reg[p].pc = "idle"
  /\ IF ~dbOk
     THEN /\ reg' = [reg EXCEPT ![p] = [pc |-> "done", email |-> email, status |-> 500,
                                        failed |-> {"read"}]]
          /\ last' = sendErrorResponse("register", NoCredential, NoPrincipal, 500,
                                       "Failed to register user", {})
     ELSE IF findByEmail(email) # {}
     THEN /\ reg' = [reg EXCEPT ![p] = [pc |-> "done", email |-> email, status |-> 409,
                                        failed |-> {}]]
          /\ last' = sendErrorResponse("register", NoCredential, NoPrincipal, 409,
                                       "User with this email already exists", {})
     ELSE /\ reg' = [reg EXCEPT ![p] = [pc |-> "create", email |-> email, status |-> 0,
                                        failed |-> {}]]
          /\ UNCHANGED last
  /\ UNCHANGED <<users, tokens, clock, orderVars, body, catalogVars, ops, run>>

\* register, lines 27-52: userService.create and the answer.  ok: the store
\* is reachable; email VARCHAR(255) UNIQUE refuses a second row.
registerCreate(p, ok) ==
  /\ reg[p].pc = "create"
  /\ IF ok /\ findByEmail(reg[p].email) = {}
     THEN /\ users' = (NewUserId(p) :> [role |-> "user", is_active |-> TRUE, name |-> "n0",
                                         email |-> reg[p].email]) @@ users
          /\ reg' = [reg EXCEPT ![p].pc = "done", ![p].status = 201]
          /\ last' = [sendSuccessResponse("register", NoCredential, NoPrincipal, 201,
                                          "User registered successfully", <<>>)
                        EXCEPT !.target = uuid_out(NewUserId(p))]
     ELSE /\ reg' = [reg EXCEPT ![p].pc = "done", ![p].status = 500,
                                ![p].failed = IF ok THEN {} ELSE {"write"}]
          /\ last' = sendErrorResponse("register", NoCredential, NoPrincipal, 500,
                                       "Failed to register user", {})
          /\ UNCHANGED users
  /\ UNCHANGED <<tokens, clock, orderVars, body, catalogVars, ops, run>>

Emails == {"e1", "e2", "e3"}

RegisteredUsers == [u \in {"u1"} |-> InitUsers[u] @@ [email |-> "e1"]]

InitRegister ==
  /\ InitCatalog
  /\ users = RegisteredUsers
  /\ tokens = {}
  /\ clock = [now |-> 0, ticks |-> 0]
  /\ orders = EmptyOrders
  /\ order_items = {}
  /\ nextOrderId = 1
  /\ cr = CrIdle
  /\ body = [hasItems |-> FALSE, items |-> <<>>, status |-> ""]
  /\ last = NoResponse
  /\ reg = RegIdle
  /\ ops = OpsIdle
  /\ run = RunIdle

RegisterCheck == \E p \in Registrants, email \in Emails, dbOk \in BOOLEAN : registerCheck(p, email, dbOk)

RegisterCreate == \E p \in Registrants, ok \in BOOLEAN : registerCreate(p, ok)

NextRegister == RegisterCheck \/ RegisterCreate

SpecRegister == InitRegister /\ [][NextRegister]_vars

(***************************************************************************)
(* Paginated lists, and SpecPage: GET /api/products?page=&limit= over a    *)
(* products table of every size up to MaxProducts.                         *)
(***************************************************************************)
\* The largest page size getAllProducts accepts.
MaxLimit == 100

\* parseInt(q) || d: NaN and 0 are falsy.
ParseOr(q, d) == IF parseInt(q).nan \/ parseInt(q).n = 0 THEN d ELSE parseInt(q).n

\* A range whose end lies one row past the page.
getAllProductsQueryOpenEnd(page, limit) ==
  [from |-> (page - 1) * limit, to |-> (page - 1) * limit + limit]

getAllProductsQuery(page, limit) ==
  [from |-> (page - 1) * limit, to |-> (page - 1) * limit + limit - 1]

\* .order('created_at', {ascending: false}): ids are given in creation
\* order, so the newest row is the one with the greatest id.
NewestFirst(rows) ==
  [i \in 1..Cardinality(DOMAIN rows) |->
     CHOOSE id \in DOMAIN rows : Cardinality({o \in DOMAIN rows : o > id}) = i - 1]

\* .range(from, to): the rows at offsets from..to (0-based, both inclusive)
\* that exist.
RangeOf(list, from, to) ==
  LET last1 == IF to + 1 < Len(list) THEN to + 1 ELSE Len(list)
  IN IF from >= last1 THEN <<>> ELSE [i \in 1..(last1 - from) |-> list[from + i]]

\* Math.ceil(total / limit)
Ceil(total, limit) == (total + limit - 1) \div limit

sendPaginatedResponse(op, data, page, limit, total, message) ==
  sendSuccessResponse(op, NoCredential, NoPrincipal, 200, message,
    [items |-> data,
     pagination |-> [currentPage |-> page, totalPages |-> Ceil(total, limit),
                     totalItems |-> total, itemsPerPage |-> limit,
                     hasNextPage |-> page < Ceil(total, limit),
                     hasPrevPage |-> page > 1]])

\* getAllProducts and ProductService.findAll.  dbOk: the store answers the
\* range read.
getAllProducts(query, dbOk) ==
  /\ LET page == ParseOr(query.page, 1)
         limit == ParseOr(query.limit, 10)
         q == getAllProductsQuery(page, limit)
     IN IF page < 1 \/ limit < 1 \/ limit > MaxLimit
        THEN last' = sendErrorResponse("getAllProducts", NoCredential, NoPrincipal, 400,
                                       "Invalid pagination parameters", {})
        ELSE IF ~dbOk
        THEN last' = [sendErrorResponse("getAllProducts", NoCredential, NoPrincipal, 500,
                                        "Failed to fetch products", {"error"})
                        EXCEPT !.failed = {"read"}]
        ELSE last' = sendPaginatedResponse("getAllProducts",
                                           RangeOf(NewestFirst(products), q.from, q.to),
                                           page, limit, Cardinality(DOMAIN products),
                                           "Products retrieved successfully")
  /\ UNCHANGED <<authVars, orderVars, body, catalogVars, reg, ops, run>>

\* Values of the page and limit query parameters: absent, not a number, and
\* numeric texts ("1.5" among them).
PageInputs == {Undef, Text, NumStr(150)} \cup {NumStr(n * Scale) : n \in -1..MaxPage}
LimitInputs ==
  {Undef, Text, NumStr(250)}
    \cup {NumStr(n * Scale) : n \in (0..MaxProducts) \cup {MaxLimit, MaxLimit + 1}}

\* A products table of n rows.
ProductRows(n) == [id \in 1..n |-> [name |-> "tea", price |-> 1599, category_id |-> NoId]]

InitPage ==
  /\ users = InitUsers
  /\ tokens = {}
  /\ clock = [now |-> 0, ticks |-> 0]
  /\ orders = EmptyOrders
  /\ order_items = {}
  /\ nextOrderId = 1
  /\ cr = CrIdle
  /\ categories = StoredCategories
  /\ nextCategoryId = 3
  /\ \E n \in 0..MaxProducts : products = ProductRows(n) /\ nextProductId = n + 1
  /\ body \in [page : PageInputs, limit : LimitInputs]
  /\ last = NoResponse
  /\ reg = RegIdle
  /\ ops = OpsIdle
  /\ run = RunIdle

GetAllProducts == \E dbOk \in BOOLEAN : getAllProducts(body, dbOk)

NextPage == GetAllProducts

SpecPage == InitPage /\ [][NextPage]_vars

(***************************************************************************)
(* Reads of one category or product, and SpecLifecycle: a client that      *)
(* creates a row, reads it, updates it, reads it, deletes it and reads it  *)
(* again, waiting for each response before it sends the next request.      *)
(***************************************************************************)
\* getCategoryById and CategoryService.findById (public route).
getCategoryById(id, dbOk) ==
  /\ IF ~dbOk
     THEN last' = [sendErrorResponse("getCategoryById", NoCredential, NoPrincipal, 500,
                                     "Failed to fetch category", {"error"}) EXCEPT !.id = id]
     ELSE IF ~Found(categories, id)
     THEN last' = [sendNotFoundResponse("getCategoryById", NoCredential, NoPrincipal,
                                        "Category not found") EXCEPT !.id = id]
     ELSE last' = [sendSuccessResponse("getCategoryById", NoCredential, NoPrincipal, 200,
                                       "Category retrieved successfully",
                                       <<[id |-> id] @@ categories[id]>>) EXCEPT !.id = id]
  /\ UNCHANGED <<authVars, orderVars, body, catalogVars, reg, ops, run>>

\* getProductById and ProductService.findById (public route).
getProductById(id, dbOk) ==
  /\ IF ~dbOk
     THEN last' = [sendErrorResponse("getProductById", NoCredential, NoPrincipal, 500,
                                     "Failed to fetch product", {"error"}) EXCEPT !.id = id]
     ELSE IF ~Found(products, id)
     THEN last' = [sendNotFoundResponse("getProductById", NoCredential, NoPrincipal,
                                        "Product not found") EXCEPT !.id = id]
     ELSE last' = [sendSuccessResponse("getProductById", NoCredential, NoPrincipal, 200,
                                       "Product retrieved successfully",
                                       <<[id |-> id] @@ products[id]>>) EXCEPT !.id = id]
  /\ UNCHANGED <<authVars, orderVars, body, catalogVars, reg, ops, run>>

\* The tokens of the logged-in admin and customer of the client script.
AdminToken == generateAccessToken(TokenPayload("a1", "admin"), 0)
UserToken == generateAccessToken(TokenPayload("u1", "user"), 0)

Kinds == {"category", "product", "order"}

CreateBodies(kind) ==
  IF kind = "category" THEN CategoryBodies
  ELSE IF kind = "product" THEN ProductBodies
  ELSE SampleBodies

ChangeBodies(kind) ==
  IF kind = "category" THEN CategoryBodies
  ELSE IF kind = "product" THEN ProductBodies
  ELSE StatusBodies

InitLifecycle ==
  /\ categories = StoredCategories
  /\ products = StoredProducts
  /\ nextCategoryId = 3
  /\ nextProductId = 3
  /\ users = InitUsers
  /\ tokens = {generateAccessToken(TokenPayload(u, InitUsers[u].role), 0) : u \in UserIds}
  /\ clock = [now |-> 0, ticks |-> 0]
  /\ orders = (1 :> StoredOrder)
  /\ order_items = {StoredItem}
  /\ nextOrderId = 2
  /\ cr = CrIdle
  /\ body = [hasItems |-> FALSE, items |-> <<>>, status |-> ""]
  /\ last = NoResponse
  /\ reg = RegIdle
  /\ ops = OpsIdle
  /\ \E kind \in Kinds : \E c \in CreateBodies(kind), u \in ChangeBodies(kind) :
       run = [RunIdle EXCEPT !.kind = kind, !.step = 1, !.create = c, !.update = u]

\* The client may send its next request: it has seen the last response.
Ready(step) == run.step = step /\ run.seen = last /\ cr.pc = "idle"

RunCreate ==
  /\ Ready(1)
  /\ \E dbOk \in BOOLEAN :
       IF run.kind = "category" THEN createCategory(AdminToken, run.create, dbOk)
       ELSE IF run.kind = "product" THEN createProduct(AdminToken, run.create, dbOk)
       ELSE createOrder(UserToken, run.create, dbOk)

RunRead ==
  /\ Ready(2) \/ Ready(4) \/ Ready(6)
  /\ \E dbOk \in BOOLEAN :
       IF run.kind = "category" THEN getCategoryById(run.id, dbOk)
       ELSE IF run.kind = "product" THEN getProductById(run.id, dbOk)
       ELSE getOrderById(UserToken, run.id, dbOk)

RunUpdate ==
  /\ Ready(3)
  /\ \E dbOk \in BOOLEAN :
       IF run.kind = "category" THEN updateCategory(AdminToken, run.id, run.update, dbOk)
       ELSE IF run.kind = "product" THEN updateProduct(AdminToken, run.id, run.update, dbOk)
       ELSE updateOrder(AdminToken, run.id, run.update, dbOk)

RunDelete ==
  /\ Ready(5)
  /\ \E dbOk \in BOOLEAN :
       IF run.kind = "category" THEN deleteCategory(AdminToken, run.id, dbOk)
       ELSE IF run.kind = "product" THEN deleteProduct(AdminToken, run.id, dbOk)
       ELSE deleteOrder(AdminToken, run.id, dbOk)

\* The client reads the response: it goes on after a success and stops at
\* the first request that is refused or fails (step 0); the answer to the
\* last read ends the sequence whatever it is.
RunReceive ==
  /\ run.step \in 1..6 /\ run.seen # last
  /\ IF run.step < 6 /\ last.status \notin {200, 201}
     THEN run' = [run EXCEPT !.step = 0, !.seen = last, !.log = Append(@, last)]
     ELSE run' = [run EXCEPT !.step = @ + 1, !.seen = last, !.log = Append(@, last),
                             !.id = IF run.step = 1 THEN last.order[1].id ELSE @]
  /\ UNCHANGED <<authVars, orderVars, body, last, catalogVars, reg, ops>>

NextLifecycle ==
  \/ RunCreate \/ CreateItems \/ CreateRollback
  \/ RunRead \/ RunUpdate \/ RunDelete \/ RunReceive

SpecLifecycle == InitLifecycle /\ [][NextLifecycle]_vars

(***************************************************************************)
(* The catch blocks of the order, product and category controllers, and    *)
(* SpecErrors: a request whose store call fails with some error message.   *)
(***************************************************************************)
\* The message of a store error, with the words it is made of.
StoreErrors ==
  {[text |-> "connection refused", words |-> <<"connection", "refused">>],
   [text |-> "duplicate key value", words |-> <<"duplicate", "key", "value">>],
   [text |-> "relation not found", words |-> <<"relation", "not", "found">>],
   [text |-> "SSL connection is required",
    words |-> <<"SSL", "connection", "is", "required">>]}

\* err.message.includes(phrase)
includes(err, phrase) ==
  \E i \in 0..(Len(err.words) - Len(phrase)) :
    SubSeq(err.words, i + 1, i + Len(phrase)) = phrase

\* The message of the 500 answer of each controller's catch block.
FailureMessage ==
  [getAllOrders |-> "Failed to fetch orders", getUserOrders |-> "Failed to fetch orders",
   getOrderById |-> "Failed to fetch order", createOrder |-> "Failed to create order",
   updateOrder |-> "Failed to update order", deleteOrder |-> "Failed to delete order",
   getAllProducts |-> "Failed to fetch products", getProductById |-> "Failed to fetch product",
   createProduct |-> "Failed to create product", updateProduct |-> "Failed to update product",
   deleteProduct |-> "Failed to delete product",
   getAllCategories |-> "Failed to fetch categories",
   getCategoryById |-> "Failed to fetch category",
   getProductsByCategory |-> "Failed to fetch products",
   createCategory |-> "Failed to create category",
   updateCategory |-> "Failed to update category",
   deleteCategory |-> "Failed to delete category"]

CatchOps == DOMAIN FailureMessage

\* catch (err) of the controller of op, for the error a service threw with
\* the store's message (throw new Error(error.message)).
catchError(op, err) ==
  LET Echo == sendErrorResponse(op, NoCredential, NoPrincipal, 400, err.text, {})
      NotFound(entity) == sendNotFoundResponse(op, NoCredential, NoPrincipal, entity)
      Failure == sendErrorResponse(op, NoCredential, NoPrincipal, 500, FailureMessage[op],
                                   {err.text})
  IN CASE op = "createOrder" /\ (includes(err, <<"required">>) \/ includes(err, <<"must", "have">>))
            -> Echo
       [] op \in {"createProduct", "createCategory"} /\ includes(err, <<"required">>) -> Echo
       [] op \in {"updateOrder", "deleteOrder"} /\ includes(err, <<"not", "found">>)
            -> NotFound("Order not found")
       [] op \in {"updateProduct", "deleteProduct"} /\ includes(err, <<"not", "found">>)
            -> NotFound("Product not found")
       [] op \in {"updateCategory", "deleteCategory"} /\ includes(err, <<"not", "found">>)
            -> NotFound("Category not found")
       [] op = "deleteCategory" /\ ~includes(err, <<"not", "found">>)
            /\ includes(err, <<"existing", "products">>) -> Echo
       [] OTHER -> Failure

InitErrors ==
  /\ InitCatalog
  /\ users = InitUsers
  /\ tokens = {}
  /\ clock = [now |-> 0, ticks |-> 0]
  /\ orders = EmptyOrders
  /\ order_items = {}
  /\ nextOrderId = 1
  /\ cr = CrIdle
  /\ body \in [op : CatchOps, err : StoreErrors]
  /\ last = NoResponse
  /\ reg = RegIdle
  /\ ops = OpsIdle
  /\ run = RunIdle

\* The store call of the request fails and the controller answers.
StoreCallFails ==
  /\ last = NoResponse
  /\ last' = catchError(body.op, body.err)
  /\ UNCHANGED <<authVars, orderVars, body, catalogVars, reg, ops, run>>

NextErrors == StoreCallFails

SpecErrors == InitErrors /\ [][NextErrors]_vars

(***************************************************************************)
(* Order update and order delete store call by store call, and SpecRace:   *)
(* one update and one delete request of an admin running at the same time. *)
(***************************************************************************)
\* The error of .single() when the statement returned no row (PGRST116).
NoRowsNotFound == [text |-> "row not found", words |-> <<"row", "not", "found">>]

NoRowsError ==
  [text |-> "JSON object requested, multiple (or no) rows returned",
   words |-> <<"JSON", "object", "requested", "multiple", "or", "no", "rows", "returned">>]

\* Some other failure of a store call.
StoreDown == [text |-> "connection refused", words |-> <<"connection", "refused">>]

\* The request of worker w is answered with response r.
Answer(w, r, why) ==
  /\ last' = r
  /\ ops' = [ops EXCEPT ![w].pc = "done", ![w].status = r.status, ![w].message = r.message,
                        ![w].failed = why]

\* updateOrder up to OrderService.update's existence check (findById).
updateOrderCheck(cred, id, status, dbOk, readOk) ==
  /\ ops["upd"].pc = "idle"
  /\ LET a == AdminGate("updateOrder", cred, dbOk)
         Reject(code, message) ==
           [sendErrorResponse("updateOrder", cred, a.user, code, message, {}) EXCEPT !.id = id]
         started == [ops EXCEPT !["upd"].id = id, !["upd"].set = status,
                                !["upd"].user = a.user.role]
     IN IF ~a.passed
        THEN Answer("upd", a.response, "gate")
        ELSE IF status = ""
        THEN Answer("upd", Reject(400, "Status is required"), "body")
        ELSE IF status \notin OrderStatuses
        THEN Answer("upd", Reject(400, "Invalid status. Must be one of: pending, processing, shipped, delivered, cancelled"), "body")
        ELSE IF ~readOk
        THEN Answer("upd", [catchError("updateOrder", StoreDown) EXCEPT !.id = id], "read")
        ELSE IF ~Found(orders, id)
        THEN Answer("upd", [sendNotFoundResponse("updateOrder", cred, a.user, "Order not found")
                              EXCEPT !.id = id], "")
        ELSE /\ ops' = [started EXCEPT !["upd"].pc = "write"]
             /\ UNCHANGED last
  /\ UNCHANGED <<authVars, orderVars, body, catalogVars, reg, run>>

\* The update statement, lines 240-250: .update(...).eq('id', id).single().
updateOrderWrite(ok) ==
  /\ ops["upd"].pc = "write"
  /\ LET id == ops["upd"].id
     IN IF ~ok
        THEN /\ Answer("upd", [catchError("updateOrder", StoreDown) EXCEPT !.id = id], "write")
             /\ UNCHANGED orders
        ELSE IF ~Found(orders, id)
        THEN /\ last' = [catchError("updateOrder", NoRowsError) EXCEPT !.id = id]
             /\ ops' = [ops EXCEPT !["upd"].pc = "done", !["upd"].missed = TRUE,
                                   !["upd"].status = last'.status,
                                   !["upd"].message = last'.message]
             /\ UNCHANGED orders
        ELSE /\ orders' = [orders EXCEPT ![id] = updateOrderQuery(@, updateData(ops["upd"].set))]
             /\ ops' = [ops EXCEPT !["upd"].pc = "items", !["upd"].row = <<orders'[id]>>]
             /\ UNCHANGED last
  /\ UNCHANGED <<authVars, order_items, nextOrderId, cr, body, catalogVars, reg, run>>

\* getOrderItems of the updated order, lines 252-258, and the 200 answer.
updateOrderItems(ok) ==
  /\ ops["upd"].pc = "items"
  /\ LET id == ops["upd"].id
     IN IF ~ok
        THEN Answer("upd", [catchError("updateOrder", StoreDown) EXCEPT !.id = id], "items")
        ELSE Answer("upd", [sendSuccessResponse("updateOrder", AdminToken, NoPrincipal, 200,
                                                "Order updated successfully",
                                                <<ops["upd"].row[1] @@ [items |-> ItemsOf(id)]>>)
                              EXCEPT !.id = id], "")
  /\ UNCHANGED <<authVars, orderVars, body, catalogVars, reg, run>>

\* deleteOrder up to OrderService.delete's existence check.
deleteOrderCheck(cred, id, dbOk, readOk) ==
  /\ ops["del"].pc = "idle"
  /\ LET a == AdminGate("deleteOrder", cred, dbOk)
     IN IF ~a.passed
        THEN Answer("del", a.response, "gate")
        ELSE IF ~readOk
        THEN Answer("del", [catchError("deleteOrder", StoreDown) EXCEPT !.id = id], "read")
        ELSE IF ~Found(orders, id)
        THEN Answer("del", [sendNotFoundResponse("deleteOrder", cred, a.user, "Order not found")
                              EXCEPT !.id = id], "")
        ELSE /\ ops' = [ops EXCEPT !["del"].pc = "items", !["del"].id = id,
                                   !["del"].user = a.user.role]
             /\ UNCHANGED last
  /\ UNCHANGED <<authVars, orderVars, body, catalogVars, reg, run>>

\* A delete that goes on to the order row without deleting the items.
deleteOrderItemsSkipped(ok) ==
  /\ ops["del"].pc = "items"
  /\ IF ~ok
     THEN Answer("del", [catchError("deleteOrder", StoreDown) EXCEPT !.id = ops["del"].id],
                 "items")
     ELSE ops' = [ops EXCEPT !["del"].pc = "order"] /\ UNCHANGED last
  /\ UNCHANGED <<authVars, orderVars, body, catalogVars, reg, run>>

\* The delete of the order's items, lines 277-287.
deleteOrderItems(ok) ==
  /\ ops["del"].pc = "items"
  /\ LET id == ops["del"].id
     IN IF ~ok
        THEN /\ Answer("del", [catchError("deleteOrder", StoreDown) EXCEPT !.id = id], "items")
             /\ UNCHANGED order_items
        ELSE /\ order_items' = ItemsWithout(id)
             /\ ops' = [ops EXCEPT !["del"].pc = "order"]
             /\ UNCHANGED last
  /\ UNCHANGED <<authVars, orders, nextOrderId, cr, body, catalogVars, reg, run>>

\* The delete of the order row, lines 289-299 (a delete that matches no row
\* is not an error); order_items.order_id is ON DELETE CASCADE.
deleteOrderRow(ok) ==
  /\ ops["del"].pc = "order"
  /\ LET id == ops["del"].id
     IN IF ~ok
        THEN /\ Answer("del", [catchError("deleteOrder", StoreDown) EXCEPT !.id = id], "order")
             /\ UNCHANGED <<orders, order_items>>
        ELSE /\ orders' = OrdersWithout(id)
             /\ order_items' = ItemsWithout(id)
             /\ Answer("del", [sendSuccessResponse("deleteOrder", AdminToken, NoPrincipal, 200,
                                                   "Order deleted successfully", <<>>)
                                 EXCEPT !.id = id], "")
  /\ UNCHANGED <<authVars, nextOrderId, cr, body, catalogVars, reg, run>>

RaceCredentials == {AdminToken, UserToken}

InitRace ==
  /\ categories = StoredCategories
  /\ products = StoredProducts
  /\ nextCategoryId = 3
  /\ nextProductId = 3
  /\ users = InitUsers
  /\ tokens = {generateAccessToken(TokenPayload(u, InitUsers[u].role), 0) : u \in UserIds}
  /\ clock = [now |-> 0, ticks |-> 0]
  /\ orders = (1 :> StoredOrder)
  /\ order_items = {StoredItem}
  /\ nextOrderId = 2
  /\ cr = CrIdle
  /\ body = [hasItems |-> FALSE, items |-> <<>>, status |-> ""]
  /\ last = NoResponse
  /\ reg = RegIdle
  /\ ops = OpsIdle
  /\ run = RunIdle

UpdateCheck ==
  \E cred \in RaceCredentials, id \in 1..MaxOrders, status \in StatusBodies \cup {"cancelled"},
     dbOk \in BOOLEAN, readOk \in BOOLEAN : updateOrderCheck(cred, id, status, dbOk, readOk)

UpdateWrite == \E ok \in BOOLEAN : updateOrderWrite(ok)

UpdateItems == \E ok \in BOOLEAN : updateOrderItems(ok)

DeleteCheck ==
  \E cred \in RaceCredentials, id \in 1..MaxOrders, dbOk \in BOOLEAN, readOk \in BOOLEAN :
    deleteOrderCheck(cred, id, dbOk, readOk)

DeleteItems == \E ok \in BOOLEAN : deleteOrderItems(ok)

DeleteRow == \E ok \in BOOLEAN : deleteOrderRow(ok)

NextRace ==
  \/ UpdateCheck \/ UpdateWrite \/ UpdateItems
  \/ DeleteCheck \/ DeleteItems \/ DeleteRow

SpecRace == InitRace /\ [][NextRace]_vars

(***************************************************************************)
(* SpecFrame: every request that writes orders or order_items, over a      *)
(* store that holds one order whose creation has completed.                *)
(***************************************************************************)
InitFrame == InitRace

FrameCreate ==
  \E cred \in RaceCredentials, b \in SampleBodies, dbOk \in BOOLEAN : createOrder(cred, b, dbOk)

FrameUpdate ==
  \E cred \in RaceCredentials, id \in 1..MaxOrders, status \in StatusBodies,
     dbOk \in BOOLEAN : updateOrder(cred, id, status, dbOk)

FrameDelete ==
  \E cred \in RaceCredentials, id \in 1..MaxOrders, dbOk \in BOOLEAN : deleteOrder(cred, id, dbOk)

NextFrame == FrameCreate \/ CreateItems \/ CreateRollback \/ FrameUpdate \/ FrameDelete

SpecFrame == InitFrame /\ [][NextFrame]_vars

(***************************************************************************)
(* SpecStatus: order create and order update with every status value, over *)
(* a stored order in every status.                                         *)
(***************************************************************************)
StatusRequests ==
  [hasItems : {TRUE}, items : {<<OneItem>>}, status : StatusInputs,
   set : OrderStatuses \cup {"", "bogus"}]

InitStatus ==
  /\ categories = StoredCategories
  /\ products = StoredProducts
  /\ nextCategoryId = 3
  /\ nextProductId = 3
  /\ users = InitUsers
  /\ tokens = {generateAccessToken(TokenPayload(u, InitUsers[u].role), 0) : u \in UserIds}
  /\ clock = [now |-> 0, ticks |-> 0]
  /\ \E s \in OrderStatuses : orders = (1 :> [StoredOrder EXCEPT !.status = s])
  /\ order_items = {StoredItem}
  /\ nextOrderId = 2
  /\ cr = CrIdle
  /\ body \in StatusRequests
  /\ last = NoResponse
  /\ reg = RegIdle
  /\ ops = OpsIdle
  /\ run = RunIdle

StatusCreate == \E cred \in RaceCredentials, dbOk \in BOOLEAN : createOrder(cred, body, dbOk)

StatusUpdate ==
  \E cred \in RaceCredentials, id \in 1..MaxOrders, dbOk \in BOOLEAN :
    updateOrder(cred, id, body.set, dbOk)

NextStatus == StatusCreate \/ CreateItems \/ CreateRollback \/ StatusUpdate

SpecStatus == InitStatus /\ [][NextStatus]_vars

(***************************************************************************)
(* SpecAttach: a category delete taken one store call at a time (the       *)
(* existence check, the reference check, the delete statement) while       *)
(* product creates and updates that set category_id are served.            *)
(***************************************************************************)
\* deleteCategory up to CategoryService.delete's existence check (findById).
deleteCategoryCheck(cred, id, dbOk, readOk) ==
  /\ ops["del"].pc = "idle"
  /\ LET a == AdminGate("deleteCategory", cred, dbOk)
     IN IF ~a.passed
        THEN Answer("del", a.response, "gate")
        ELSE IF ~readOk
        THEN Answer("del", [catchError("deleteCategory", StoreDown) EXCEPT !.id = id], "read")
        ELSE IF ~Found(categories, id)
        THEN Answer("del", [sendNotFoundResponse("deleteCategory", cred, a.user,
                                                 "Category not found") EXCEPT !.id = id], "")
        ELSE /\ ops' = [ops EXCEPT !["del"].pc = "refs", !["del"].id = id,
                                   !["del"].user = a.user.role]
             /\ UNCHANGED last
  /\ UNCHANGED <<authVars, orderVars, body, catalogVars, reg, run>>

\* The reference check, lines 148-162: a failed query is logged and the
\* delete goes on.
deleteCategoryRefs(ok) ==
  /\ ops["del"].pc = "refs"
  /\ LET id == ops["del"].id
     IN IF HasProducts(id, IF ok THEN "none" ELSE "check")
        THEN Answer("del", [sendErrorResponse("deleteCategory", AdminToken, NoPrincipal, 400,
                                              "Cannot delete category with existing products", {})
                              EXCEPT !.id = id], "")
        ELSE /\ ops' = [ops EXCEPT !["del"].pc = "row",
                                   !["del"].failed = IF ok THEN "" ELSE "check"]
             /\ UNCHANGED last
  /\ UNCHANGED <<authVars, orderVars, body, catalogVars, reg, run>>

\* The delete statement, lines 164-174; products.category_id is ON DELETE
\* SET NULL.  missed: products referenced the category when it was deleted.
deleteCategoryRow(ok) ==
  /\ ops["del"].pc = "row"
  /\ LET id == ops["del"].id
         r == [sendSuccessResponse("deleteCategory", AdminToken, NoPrincipal, 200,
                                   "Category deleted successfully", <<>>) EXCEPT !.id = id]
     IN IF ~ok
        THEN /\ Answer("del", [catchError("deleteCategory", StoreDown) EXCEPT !.id = id], "write")
             /\ UNCHANGED <<categories, products>>
        ELSE /\ categories' = CategoriesWithout(id)
             /\ products' = ProductsSetNull(id)
             /\ last' = r
             /\ ops' = [ops EXCEPT !["del"].pc = "done", !["del"].status = r.status,
                                   !["del"].message = r.message,
                                   !["del"].missed = getProductsByCategory(id) # {}]
  /\ UNCHANGED <<authVars, orderVars, body, nextCategoryId, nextProductId, reg, run>>

\* Product bodies that name a category, none, or a category that never was.
AttachCreateBodies ==
  {[name |-> "sage", price |-> Num(500), category_id |-> c] : c \in {NoId, 1, 2, 9}}

AttachUpdateBodies ==
  {[name |-> NoField, price |-> Undef, category_id |-> c] : c \in {0, 1, 2, 9}}

InitAttach == InitRace

AttachDeleteCheck ==
  \E cred \in RaceCredentials, id \in DOMAIN StoredCategories, dbOk \in BOOLEAN, readOk \in BOOLEAN :
    deleteCategoryCheck(cred, id, dbOk, readOk)

AttachDeleteRefs == \E ok \in BOOLEAN : deleteCategoryRefs(ok)

AttachDeleteRow == \E ok \in BOOLEAN : deleteCategoryRow(ok)

AttachCreate ==
  \E cred \in RaceCredentials, b \in AttachCreateBodies, dbOk \in BOOLEAN : createProduct(cred, b, dbOk)

AttachUpdate ==
  \E cred \in RaceCredentials, id \in 1..MaxProducts, b \in AttachUpdateBodies, dbOk \in BOOLEAN :
    updateProduct(cred, id, b, dbOk)

NextAttach ==
  \/ AttachDeleteCheck \/ AttachDeleteRefs \/ AttachDeleteRow
  \/ AttachCreate \/ AttachUpdate

SpecAttach == InitAttach /\ [][NextAttach]_vars

(***************************************************************************)
(* SpecEmpty: update requests of categories, products and users whose      *)
(* body carries some updatable fields or none.                             *)
(***************************************************************************)
\* The body of one PUT request and the table it is sent to.
UpdateRequests ==
  {[kind |-> "category", b |-> b] : b \in CategoryBodies}
    \cup {[kind |-> "product", b |-> b] : b \in ProductBodies}
    \cup {[kind |-> "user", b |-> b] : b \in UpdateBodies}

InitEmpty ==
  /\ categories = StoredCategories
  /\ products = StoredProducts
  /\ nextCategoryId = 3
  /\ nextProductId = 3
  /\ users = InitUsers
  /\ tokens = {generateAccessToken(TokenPayload(u, InitUsers[u].role), 0) : u \in UserIds}
  /\ clock = [now |-> 0, ticks |-> 0]
  /\ orders = (1 :> StoredOrder)
  /\ order_items = {StoredItem}
  /\ nextOrderId = 2
  /\ cr = CrIdle
  /\ body \in UpdateRequests
  /\ last = NoResponse
  /\ reg = RegIdle
  /\ ops = OpsIdle
  /\ run = RunIdle

EmptyCategory ==
  /\ body.kind = "category"
  /\ \E cred \in RaceCredentials, id \in 1..MaxCategories, dbOk \in BOOLEAN :
       updateCategory(cred, id, body.b, dbOk)

EmptyProduct ==
  /\ body.kind = "product"
  /\ \E cred \in RaceCredentials, id \in 1..MaxProducts, dbOk \in BOOLEAN :
       updateProduct(cred, id, body.b, dbOk)

EmptyUser ==
  /\ body.kind = "user"
  /\ \E cred \in RaceCredentials, id \in IdTexts, dbOk \in BOOLEAN :
       updateUser(cred, id, dbOk, {body.b})

NextEmpty == EmptyCategory \/ EmptyProduct \/ EmptyUser

SpecEmpty == InitEmpty /\ [][NextEmpty]_vars

(***************************************************************************)
(* Properties of order create (SpecCreate).                                *)
(***************************************************************************)
\* The preconditions of create as the specification states them: a product_id,
\* a positive integer quantity, a non-negative price.
IsNumeric(x) == x.k \in {"num", "str"}

ValidItem(item) ==
  /\ item.product_id.k # "undef"
  /\ IsNumeric(item.quantity) /\ item.quantity.v > 0 /\ item.quantity.v % Scale = 0
  /\ IsNumeric(item.price) /\ item.price.v >= 0

ValidBody(b) ==
  /\ b.hasItems
  /\ Len(b.items) > 0
  /\ \A i \in 1..Len(b.items) : ValidItem(b.items[i])

RECURSIVE ExactTotal(_)
ExactTotal(items) ==
  IF items = <<>> THEN 0
  ELSE (Head(items).price.v * Head(items).quantity.v) \div Scale + ExactTotal(Tail(items))

CreateAnswered == last.op = "createOrder" /\ cr.pc = "idle"
CreatedId == cr.created[1].id

C2_BothFailuresSurfaced ==
  (CreateAnswered /\ cr.itemsError /\ cr.deleteError) =>
    {"itemsError", "deleteError"} \subseteq last.errors

\* C3: a payload that violates a precondition (no items, an item without
\* product_id, a quantity that is not a positive integer, a negative price) is
\* answered 400 and never writes to orders or order_items.
C3_InvalidRejectedBeforeWrite ==
  ~ValidBody(body) =>
    /\ DOMAIN orders = {} /\ order_items = {} /\ cr.pc = "idle"
    /\ (last.op = "createOrder" /\ last.user.role # "none") => last.status = 400

\* C4: a payload that meets every precondition (a price of 0 included) is
\* never answered with a validation error.
C4_ValidNotRejected ==
  (last.op = "createOrder" /\ last.user.role # "none" /\ ValidBody(body)) =>
    last.status # 400

\* C5: the total_amount written on the order of a valid payload is the exact
\* sum of price x quantity over its items, whatever the rounding of each step
\* of the summation (hence whatever the order of the items).
C5_TotalIsExactSum ==
  \A id \in DOMAIN orders :
    ValidBody(body) =>
      /\ orders[id].total_amount = ExactTotal(body.items)
      /\ (last.status = 201 => last.order[1].total_amount = ExactTotal(body.items))

C5_Witness ==
  /\ last.status = 201 /\ Len(body.items) = 2
  /\ body.items[1].quantity = Num(2 * Scale) /\ body.items[2].quantity = Num(1 * Scale)
  /\ body.items[1].price = Num(1599) /\ body.items[2].price = Num(1599)
  /\ orders[CreatedId].total_amount = 4797

(***************************************************************************)
(* Properties of reading an order (SpecOrder).                             *)
(***************************************************************************)
\* The last response answers a read of an existing order by a requester the
\* gate let through.
ReadAnswered ==
  /\ last.op = "getOrderById" /\ last.user.role # "none"
  /\ last.id \in DOMAIN orders

IsOwnerOrAdmin == last.user.role = "admin" \/ orders[last.id].user_id = last.user.id

\* C6: a read of an existing order whose store reads succeed answers 200
\* with the order exactly when the requester is admin or the order's user,
\* and 403 'Access denied' with no order data for any other authenticated
\* requester; a read whose store reads fail answers 500 with no order data.
\* (A step that answers a read leaves the store and the pending create alone.)
C6_OwnershipGate ==
  [][(ReadAnswered' /\ orders' = orders /\ cr' = cr) =>
       IF last'.errors = {"readError"}
       THEN last'.status = 500 /\ last'.order = <<>>
       ELSE IF IsOwnerOrAdmin'
       THEN last'.status = 200 /\ last'.order = OrderView(last'.id)
       ELSE /\ last'.status = 403 /\ last'.message = "Access denied"
            /\ last'.order = <<>>]_vars

C6_Witness ==
  /\ ReadAnswered /\ ~IsOwnerOrAdmin
  /\ last.status = 403 /\ last.message = "Access denied" /\ last.order = <<>>
  /\ orders[last.id].user_id = uuid_out("u1") /\ last.user.id = uuid_out("u2")

(***************************************************************************)
(* Properties of the gate and of token issuance (SpecAuth).                *)
(***************************************************************************)
\* The operations behind authenticateToken.
GatedOps == {"getProfile", "updateProfile", "updateUser", "deactivateUser",
             "createOrder", "getOrderById"}

\* C7: a token issued as a refresh token never passes authenticateToken.
C7_RefreshTokenNeverPassesGate ==
  (last.op \in GatedOps /\ last.cred.k = "jwt" /\ last.cred.cls = "refresh") =>
    (last.status = 401 /\ last.user = NoPrincipal)

\* C8: a request carrying a token of a user whose stored is_active is false
\* is turned away by the gate (401, 'Account is deactivated' once the stored
\* user has been read), and login and refresh issue no token for that user.
C8_DeactivatedRejected ==
  [][/\ (/\ last'.op \in GatedOps /\ last'.cred.k = "jwt"
         /\ uuid_in(last'.cred.userId) \in DOMAIN users
         /\ ~users[uuid_in(last'.cred.userId)].is_active) =>
          /\ last'.status = 401 /\ last'.user = NoPrincipal
          /\ verifyAccessToken(last'.cred, clock.now) = "ok" =>
               last'.message \in {"Account is deactivated", "Authentication failed"}
     /\ \A t \in (tokens' \ tokens) \cup last'.issued :
          /\ users[uuid_in(t.userId)].is_active
          /\ last'.status = 200 /\ last'.op \in {"login", "refreshToken"}
     /\ (/\ last'.op = "login" /\ uuid_in(last'.target) \in DOMAIN users
         /\ ~users[uuid_in(last'.target)].is_active) =>
          (last'.status = 401 /\ last'.issued = {} /\ tokens' = tokens)
     /\ (/\ last'.op = "refreshToken" /\ last'.cred.k = "jwt"
         /\ ~users[uuid_in(last'.cred.userId)].is_active) =>
          (last'.status # 200 /\ last'.issued = {} /\ tokens' = tokens)]_vars

C8_Witness ==
  /\ last.op = "getProfile" /\ last.cred.k = "jwt" /\ last.cred.cls = "access"
  /\ verifyAccessToken(last.cred, clock.now) = "ok"
  /\ ~users[uuid_in(last.cred.userId)].is_active
  /\ last.status = 401 /\ last.message = "Account is deactivated"

(***************************************************************************)
(* Properties of user management (SpecUsers).                              *)
(***************************************************************************)
\* C9: an admin's deactivate-user request that targets the admin's own
\* account is rejected and leaves the account active.
C9_SelfDeactivateRejected ==
  (/\ last.op = "deactivateUser" /\ last.user.role = "admin"
   /\ uuid_in(last.target) = uuid_in(last.user.id)) =>
    (last.status # 200 /\ users[uuid_in(last.user.id)].is_active)

\* C10: no request leaves the principal that made it (the user the gate
\* resolved, active at that moment) with is_active false.
C10_NoSelfDeactivation ==
  last.user.role # "none" => users[uuid_in(last.user.id)].is_active

(***************************************************************************)
(* Properties of the admin routes (SpecAdmin).                             *)
(***************************************************************************)
\* The request answered by the next state went through the gate as admin.
AdminAnswered(op) == last'.op = op /\ last'.user.role = "admin"

StoreUnchanged ==
  UNCHANGED <<categories, products, nextCategoryId, nextProductId, orders, order_items, nextOrderId>>

\* C11: a delete of a category that a product references is rejected and
\* leaves the category and every product's category_id as they were.
C11_ReferencedCategoryKept ==
  [][(/\ AdminAnswered("deleteCategory")
      /\ last'.id \in DOMAIN categories
      /\ getProductsByCategory(last'.id) # {}) =>
       /\ last'.status >= 400
       /\ categories' = categories /\ products' = products]_vars

\* C12: a category delete whose reference check failed answers with a
\* failure and has not deleted the category.
C12_CheckFailureSurfaced ==
  (last.op = "deleteCategory" /\ "check" \in last.failed) =>
    (last.status >= 400 /\ last.id \in DOMAIN categories)

\* C13: the rejection of deleting a category that still has products is
\* answered with status 409.
C13_InUseIsConflict ==
  (last.op = "deleteCategory"
   /\ last.message = "Cannot delete category with existing products") =>
    last.status = 409

AdminOps == {"createCategory", "updateCategory", "deleteCategory",
             "createProduct", "updateProduct", "deleteProduct",
             "updateOrder", "deleteOrder"}

\* C14: a step that changes categories, products, orders or order_items
\* answers a request whose token belongs to a stored user that is active and
\* admin; a request of an authenticated non-admin is answered 403
\* 'Insufficient permissions' and a request the gate turns away 401, the
\* store unchanged in both cases.
C14_AdminOnlyWrites ==
  [][/\ last'.op \in AdminOps
     /\ ~StoreUnchanged =>
          /\ last'.user.role = "admin" /\ last'.cred \in tokens
          /\ verifyAccessToken(last'.cred, clock.now) = "ok"
          /\ users[uuid_in(last'.cred.userId)].is_active
          /\ users[uuid_in(last'.cred.userId)].role = "admin"
          /\ last'.user.id = uuid_out(uuid_in(last'.cred.userId))
     /\ last'.user.role \notin {"none", "admin"} =>
          /\ last'.status = 403 /\ last'.message = "Insufficient permissions"
          /\ StoreUnchanged
     /\ last'.user = NoPrincipal => (last'.status = 401 /\ StoreUnchanged)
     /\ (last'.cred.k # "jwt" \/ ~users[uuid_in(last'.cred.userId)].is_active) =>
          (last'.status = 401 /\ last'.user = NoPrincipal)
     /\ (last'.cred.k = "jwt" /\ users[uuid_in(last'.cred.userId)].role # "admin") =>
          (last'.status \in {401, 403} /\ StoreUnchanged)]_vars

C14_Witness ==
  /\ last.op = "deleteProduct" /\ last.cred.k = "jwt"
  /\ users[uuid_in(last.cred.userId)].role = "user"
  /\ last.status = 403 /\ last.message = "Insufficient permissions"
  /\ StoreUntouched

\* The table an update or delete operation resolves its id in.
TableOf(op) ==
  IF op \in {"updateCategory", "deleteCategory"} THEN DOMAIN categories
  ELSE IF op \in {"updateProduct", "deleteProduct"} THEN DOMAIN products
  ELSE DOMAIN orders

NotFoundMessage(op) ==
  IF op \in {"updateCategory", "deleteCategory"} THEN "Category not found"
  ELSE IF op \in {"updateProduct", "deleteProduct"} THEN "Product not found"
  ELSE "Order not found"

C15_OwnershipIffAdminOrOwner ==
  (last.op = "requireOwnership" /\ body.user # NoPrincipal) =>
    IF body.user.role = "admin"
       \/ body.user.id = (IF body.params # NoTarget THEN body.params ELSE body.body)
    THEN last.message = "next"
    ELSE last.status = 403

(***************************************************************************)
(* Properties of the order lifecycle (SpecOrder).                          *)
(***************************************************************************)
\* C16: in every state, the states between the store calls of create, of
\* its compensation and of delete included, every order_items row references
\* an order row that exists, and no row is shared by two orders.
C16_ItemsNeverOutliveOrder ==
  /\ \A r \in order_items : r.order_id \in DOMAIN orders
  /\ \A r1, r2 \in order_items :
       (r1.line = r2.line /\ r1.order_id = r2.order_id) => r1 = r2

C16_Witness ==
  /\ last.op = "deleteOrder" /\ last.status = 500
  /\ last.id \in DOMAIN orders /\ ItemsOf(last.id) = {}
  /\ order_items # {}

\* C17: no read of an order ever returns an order with zero items.
C17_NoOrderSeenWithoutItems ==
  (last.op = "getOrderById" /\ last.status = 200) => last.order[1].items # {}

(***************************************************************************)
(* Properties of registration (SpecRegister).                              *)
(***************************************************************************)
\* C18: at most one user row holds an email, and a registration that ends
\* without a store failure while another user row holds its email has
\* created no user and was answered 409.
C18_DuplicateEmailIsConflict ==
  /\ \A u1, u2 \in DOMAIN users : users[u1].email = users[u2].email => u1 = u2
  /\ \A p \in Registrants :
       (/\ reg[p].pc = "done" /\ reg[p].failed = {}
        /\ findByEmail(reg[p].email) \ {NewUserId(p)} # {}) =>
         (reg[p].status = 409 /\ NewUserId(p) \notin DOMAIN users)

Supplied(kind, f) ==
  CASE kind = "order" -> f = "status"
    [] f = "id" -> FALSE
    [] f = "price" -> run.update.price # Undef
    [] f = "category_id" -> run.update.category_id # NoId
    [] OTHER -> run.update[f] # NoField

FieldsOf(kind) ==
  CASE kind = "category" -> {"id", "name", "description"}
    [] kind = "product" -> {"id", "name", "price", "category_id"}
    [] kind = "order" -> {"id", "user_id", "status", "total_amount", "items"}

\* C21: when the five requests create, read, update, read, delete of one
\* category, product or order have each succeeded, the first read returned
\* the row that create returned, the second read returned the row that
\* update returned, equal to the first in every field the update did not
\* supply, the read after the delete is answered 404 unless the store fails
\* a read of that request (500, or 401 when the gate cannot read the user), and the store holds exactly the rows it held before the
\* sequence (no order_items of the deleted order among them).
C21_LifecycleLeavesNothing ==
  (run.step = 7 /\ run.log[6].status \notin {401, 500}) =>
    LET created == run.log[1].order[1]
        read1 == run.log[2].order[1]
        updated == run.log[3].order[1]
        read2 == run.log[4].order[1]
    IN /\ read1 = created
       /\ read2 = updated
       /\ \A f \in FieldsOf(run.kind) : ~Supplied(run.kind, f) => read2[f] = read1[f]
       /\ run.kind = "order" => read2.status = run.update
       /\ run.log[6].status = 404 /\ run.log[6].order = <<>>
       /\ categories = StoredCategories /\ products = StoredProducts
       /\ orders = (1 :> StoredOrder) /\ order_items = {StoredItem}
       /\ ItemsOf(run.id) = {}

C21_Witness ==
  /\ run.step = 7 /\ run.kind = "order"
  /\ run.log[2].order[1].items # {}
  /\ run.log[4].order[1].status = "shipped"
  /\ run.log[6].status = 404

(***************************************************************************)
(* Properties of the answers to a failed store call (SpecErrors).          *)
(***************************************************************************)
\* C22: the answer to a request whose store call failed has the status,
\* message and errors it would have for any other message of the store
\* error.
C22_NoStoreErrorText ==
  last.op \in CatchOps =>
    \A other \in StoreErrors :
      LET r == catchError(last.op, other)
      IN r.status = last.status /\ r.message = last.message /\ r.errors = last.errors

(***************************************************************************)
(* Properties of concurrent order update and delete (SpecRace).            *)
(***************************************************************************)
\* C23: once a delete has answered success its order row and all its items
\* are absent, whatever a concurrent update of the same order does; an
\* update whose write ran after the row was removed is answered 500
\* 'Failed to update order', never 200, 404 or 409.
C23_UpdateDeleteRace ==
  /\ (ops["del"].pc = "done" /\ ops["del"].status = 200) =>
       (ops["del"].id \notin DOMAIN orders /\ ItemsOf(ops["del"].id) = {})
  /\ ops["upd"].missed =>
       (ops["upd"].status = 500 /\ ops["upd"].message = "Failed to update order")
  /\ (ops["upd"].pc = "done" /\ ops["upd"].status = 200) => ~ops["upd"].missed

C23_Witness ==
  /\ ops["upd"].missed /\ ops["upd"].pc = "done" /\ ops["upd"].status = 500
  /\ ops["del"].pc = "done" /\ ops["del"].status = 200
  /\ ops["del"].id = ops["upd"].id

\* C24: the delete removes an order row only after its delete of that
\* order's items succeeded, none of the items existing any more; a failed
\* items delete ends the request with the order and its items as they
\* were; a failed delete of the order row is answered with a failure and
\* leaves the row, with no items.
C24_ItemsBeforeOrder ==
  [][/\ (\E id \in DOMAIN orders : id \notin DOMAIN orders') =>
          (/\ ops["del"].pc = "order" /\ ops["del"].id \notin DOMAIN orders'
           /\ ItemsOf(ops["del"].id) = {})
     /\ (ops["del"].failed # "items" /\ ops'["del"].failed = "items") =>
          (/\ ops'["del"].pc = "done" /\ ops'["del"].status >= 400
           /\ UNCHANGED <<orders, order_items>>)
     /\ (ops["del"].failed # "order" /\ ops'["del"].failed = "order") =>
          (/\ ops'["del"].status = 500 /\ ops'["del"].message = "Failed to delete order"
           /\ ops["del"].id \in DOMAIN orders'
           /\ {r \in order_items' : r.order_id = ops["del"].id} = {})
     /\ ops["del"].pc = "done" => UNCHANGED <<order_items, ops["del"]>>
     /\ (ops["del"].pc = "done" /\ ops["del"].status # 200 /\ ops["del"].id \in DOMAIN orders) =>
          ops["del"].id \in DOMAIN orders']_vars

C24_Witness ==
  /\ ops["del"].pc = "done" /\ ops["del"].failed = "order" /\ ops["del"].status = 500
  /\ ops["del"].id \in DOMAIN orders /\ ItemsOf(ops["del"].id) = {}

(***************************************************************************)
(* Properties of the columns and items of a created order (SpecFrame).     *)
(***************************************************************************)
\* The order's creation has completed: no create request is between its
\* insert of this order and its answer.
Completed(id) ==
  /\ id \in DOMAIN orders
  /\ cr.pc = "idle" \/ cr.created = <<>> \/ cr.created[1].id # id

RECURSIVE SumOfItems(_)
SumOfItems(rows) ==
  IF rows = {} THEN 0
  ELSE LET r == CHOOSE x \in rows : TRUE
       IN r.price * r.quantity + SumOfItems(rows \ {r})

\* C25 as claimed: no request changes the total_amount, the user_id or the
\* set of items of an order whose creation has completed, as long as the
\* order exists.
C25_OrderFrozen ==
  [][\A id \in DOMAIN orders \cap DOMAIN orders' :
       Completed(id) =>
         /\ orders'[id].total_amount = orders[id].total_amount
         /\ orders'[id].user_id = orders[id].user_id
         /\ {r \in order_items' : r.order_id = id} = ItemsOf(id)]_vars

\* C25, amended: no request changes the total_amount or the user_id of an
\* order whose creation has completed; its set of items changes only when a
\* delete request removes all of them; an update request changes nothing
\* but the status of its order; and total_amount is the sum of price times
\* quantity over the items whenever the order has items.
C25_OrderFrozenButForDelete ==
  [][/\ \A id \in DOMAIN orders \cap DOMAIN orders' :
          Completed(id) =>
            /\ orders'[id].total_amount = orders[id].total_amount
            /\ orders'[id].user_id = orders[id].user_id
            /\ \/ {r \in order_items' : r.order_id = id} = ItemsOf(id)
               \/ /\ last'.op = "deleteOrder" /\ last'.id = id
                  /\ {r \in order_items' : r.order_id = id} = {}
     /\ (last'.op = "updateOrder" /\ cr' = cr) =>
          /\ order_items' = order_items
          /\ DOMAIN orders' = DOMAIN orders
          /\ \A id \in DOMAIN orders :
               orders'[id] = orders[id]
               \/ (id = last'.id /\ orders'[id] = [orders[id] EXCEPT !.status = orders'[id].status])
     /\ \A id \in DOMAIN orders :
          (Completed(id) /\ ItemsOf(id) # {}) =>
            orders[id].total_amount = SumOfItems(ItemsOf(id))]_vars

C25_Witness ==
  /\ last.op = "updateOrder" /\ last.status = 200
  /\ last.id \in DOMAIN orders /\ orders[last.id].status = "shipped"
  /\ orders[last.id].total_amount = 1599 /\ ItemsOf(last.id) # {}

(***************************************************************************)
(* Properties of the order status (SpecStatus).                            *)
(***************************************************************************)
\* C26: every order row's status is one of pending, processing, shipped,
\* delivered, cancelled; a created order has the status of the request, or
\* pending when the request has none; a create or an update with a status
\* outside the set leaves no new or changed order row and no new
\* order_items; an admin's update of an existing order to a status of the
\* set is refused for no prior status (it succeeds unless the store fails).
C26_StatusInSet ==
  [][/\ \A id \in DOMAIN orders' : orders'[id].status \in OrderStatuses
     /\ \A id \in DOMAIN orders' \ DOMAIN orders :
          orders'[id].status = (IF body.status = "" THEN "pending" ELSE body.status)
     /\ body.status \notin OrderStatuses \cup {""} =>
          (DOMAIN orders' = DOMAIN orders /\ order_items' = order_items)
     /\ (last'.op = "updateOrder" /\ cr' = cr) =>
          /\ body.set \notin OrderStatuses => (orders' = orders /\ order_items' = order_items)
          /\ (/\ body.set \in OrderStatuses /\ last'.user.role = "admin"
              /\ last'.id \in DOMAIN orders) =>
               \/ last'.status = 500 /\ last'.errors # {}
               \/ last'.status = 200 /\ orders'[last'.id].status = body.set]_vars

C26_Witness ==
  /\ last.op = "updateOrder" /\ last.status = 200 /\ body.set = "pending"
  /\ last.id = 2 /\ orders[2].status = "pending" /\ body.status = "shipped"

(***************************************************************************)
(* Properties of a category delete served next to product writes           *)
(* (SpecAttach).                                                           *)
(***************************************************************************)
\* C27: in every reachable state every product's category_id is null or the
\* id of an existing category, whatever the interleaving of the three store
\* calls of a category delete with product creates and updates that set
\* category_id; a product attached after the reference check is not left
\* pointing at the deleted category.
C27_CategoryIdRefers ==
  \A q \in DOMAIN products :
    products[q].category_id = 0 \/ products[q].category_id \in DOMAIN categories

\* A category was deleted although a product had been attached to it after
\* the reference check had found none.
C27_Witness ==
  /\ ops["del"].pc = "done" /\ ops["del"].status = 200
  /\ ops["del"].failed = "" /\ ops["del"].missed
  /\ ops["del"].id \notin DOMAIN categories
  /\ \E q \in DOMAIN products : products[q].category_id = 0 /\ products[q].name = "sage"

(***************************************************************************)
(* Properties of updates that supply no field (SpecEmpty).                 *)
(***************************************************************************)
\* The body of the request carries none of the fields its handler writes.
SuppliesNothing ==
  CASE body.kind = "category" -> body.b.name = NoField /\ body.b.description = NoField
    [] body.kind = "product" ->
         body.b.name = NoField /\ body.b.price = Undef /\ body.b.category_id = NoId
    [] body.kind = "user" -> body.b.name = "" /\ body.b.role = "" /\ body.b.is_active = "absent"

\* C28: an update of a category, a product or a user that supplies no
\* updatable field, sent by an admin to an existing row while the store
\* answers, is rejected with 400 and writes nothing.
C28_EmptyUpdateRejected ==
  [][(/\ SuppliesNothing
      /\ last'.op \in {"updateCategory", "updateProduct", "updateUser"}
      /\ last'.status \notin {401, 403, 404, 500})
       => /\ last'.status = 400
          /\ UNCHANGED <<categories, products, users>>]_vars

(***************************************************************************)
(* Properties of the role a request is authorized with (SpecUsers).        *)
(***************************************************************************)
\* C29: a request to an admin-only user route that passes authentication is
\* let through exactly when the role stored for the token's user at the time
\* of the request is admin, whatever role the token carries: a token issued
\* before a role change is judged by the new role on the next request.
C29_StoredRoleDecides ==
  [][(/\ clock' = clock
      /\ last'.op \in {"updateUser", "deactivateUser"}
      /\ last'.cred.k = "jwt" /\ last'.status # 401)
       => ((last'.status = 403) <=> (users[uuid_in(last'.cred.userId)].role # "admin"))]_vars

\* The customer's token, issued with role user, is let through an admin-only
\* route after the customer was made admin.
C29_Witness ==
  /\ last.op = "deactivateUser" /\ last.status = 200
  /\ last.cred \in tokens /\ last.cred.role = "user"
  /\ uuid_in(last.cred.userId) = "u1" /\ users["u1"].role = "admin"

(***************************************************************************)
(* Properties of login (SpecAuth).                                         *)
(***************************************************************************)
\* C30: a login attempt whose password is not the account's password, the
\* store answering, gets the same status and message whether the email
\* belongs to no user, to an active user or to a deactivated user: 401
\* 'Invalid email or password', the answer given for an unknown email.
C30_LoginHidesAccount ==
  [][\A u \in AuthUserIds \cup {"zz"} :
       login(u, FALSE, TRUE) =>
         (last'.status = 401 /\ last'.message = "Invalid email or password")]_vars

====
